---- MODULE Spec2Model ----
(***************************************************************************)
(* The AlgoRhythm authentication form controller (class AuthManager).      *)
(*                                                                         *)
(* Three variants of the controller exist: the "fixed" variant (first      *)
(* class of src/script.js), the "2025" variant (second class of            *)
(* src/script.js) and the "minimal" variant (src/script-merged.js).        *)
(*                                                                         *)
(* JavaScript strings are modelled as sequences of one-character strings,  *)
(* so that regular expressions, substring tests, trimming and comparisons  *)
(* are computed character by character.  An object is a record; a property *)
(* that is absent (undefined) is a field that is not in the record's       *)
(* DOMAIN.                                                                 *)
(*                                                                         *)
(* The event loop is modelled by interleaving: a handler runs atomically   *)
(* from its start (or from the await it resumes at) up to its next await   *)
(* or its end.  A pending setTimeout callback or delay() promise is an     *)
(* element of a variable and fires in its own action.  Delays are kept as  *)
(* data (ms); callbacks may fire in any order, which includes every order  *)
(* the real timers can produce.                                            *)
(***************************************************************************)
EXTENDS Integers, Sequences, FiniteSets, TLC

(***************************************************************************)
(* Bounds of the model.                                                    *)
(***************************************************************************)
\* Number of DOM events (submits, clicks) dispatched in one behaviour.
MaxEvents == 2

(***************************************************************************)
(* Character classes used by the regular expressions of the source.        *)
(***************************************************************************)
\* [a-z]
Lower ==
    {"a", "b", "c", "d", "e", "f", "g", "h", "i", "j", "k", "l", "m",
     "n", "o", "p", "q", "r", "s", "t", "u", "v", "w", "x", "y", "z"}

\* [A-Z]
Upper ==
    {"A", "B", "C", "D", "E", "F", "G", "H", "I", "J", "K", "L", "M",
     "N", "O", "P", "Q", "R", "S", "T", "U", "V", "W", "X", "Y", "Z"}

\* \d, [0-9]
Digit ==
    {"0", "1", "2", "3", "4", "5", "6", "7", "8", "9"}

\* \s (the whitespace characters a text input can hold)
Whitespace ==
    {" ", "\t"}

(***************************************************************************)
(* String literals of the source and the sample inputs.                    *)
(***************************************************************************)
\* ''
EmptyStr ==
    << >>

\* 'a@b.co'
EmailOk ==
    <<"a", "@", "b", ".", "c", "o">>

\* 'a@b'
EmailNoDot ==
    <<"a", "@", "b">>

\* 'test@error.com'
TestErrorCom ==
    <<"t", "e", "s", "t", "@", "e", "r", "r", "o", "r", ".", "c", "o", "m">>

\* 'test@network.com'
TestNetworkCom ==
    <<"t", "e", "s", "t", "@", "n", "e", "t", "w", "o", "r", "k", ".", "c",
      "o", "m">>

\* 'secret'
PwSecret ==
    <<"s", "e", "c", "r", "e", "t">>

\* 'short'
PwShort ==
    <<"s", "h", "o", "r", "t">>

\* 'Abcdefg1'
PwAbcdefg1 ==
    <<"A", "b", "c", "d", "e", "f", "g", "1">>

\* 'Jo'
NameJo ==
    <<"J", "o">>

\* ' J '
NameSpJSp ==
    <<" ", "J", " ">>

\* 'Invalid credentials'
MsgInvalidCredentials ==
    <<"I", "n", "v", "a", "l", "i", "d", " ", "c", "r", "e", "d", "e", "n",
      "t", "i", "a", "l", "s">>

\* 'Network connection failed'
MsgNetworkFailed ==
    <<"N", "e", "t", "w", "o", "r", "k", " ", "c", "o", "n", "n", "e", "c",
      "t", "i", "o", "n", " ", "f", "a", "i", "l", "e", "d">>

\* 'User'
MsgDefaultUser ==
    <<"U", "s", "e", "r">>

\* 'mock-jwt-token'
MsgMockToken ==
    <<"m", "o", "c", "k", "-", "j", "w", "t", "-", "t", "o", "k", "e", "n">>

\* 'network'
SubNetworkLower ==
    <<"n", "e", "t", "w", "o", "r", "k">>

\* 'Network'
SubNetworkUpper ==
    <<"N", "e", "t", "w", "o", "r", "k">>

\* 'credentials'
SubCredentials ==
    <<"c", "r", "e", "d", "e", "n", "t", "i", "a", "l", "s">>

\* 'Invalid'
SubInvalid ==
    <<"I", "n", "v", "a", "l", "i", "d">>

\* 'Authentication failed. Please try again.'
ToastGeneric ==
    <<"A", "u", "t", "h", "e", "n", "t", "i", "c", "a", "t", "i", "o", "n",
      " ", "f", "a", "i", "l", "e", "d", ".", " ", "P", "l", "e", "a", "s",
      "e", " ", "t", "r", "y", " ", "a", "g", "a", "i", "n", ".">>

\* 'Network error. Please check your connection.'
ToastNetwork ==
    <<"N", "e", "t", "w", "o", "r", "k", " ", "e", "r", "r", "o", "r", ".",
      " ", "P", "l", "e", "a", "s", "e", " ", "c", "h", "e", "c", "k", " ",
      "y", "o", "u", "r", " ", "c", "o", "n", "n", "e", "c", "t", "i", "o",
      "n", ".">>

\* 'Invalid credentials. Please check your details.'
ToastCredentials ==
    <<"I", "n", "v", "a", "l", "i", "d", " ", "c", "r", "e", "d", "e", "n",
      "t", "i", "a", "l", "s", ".", " ", "P", "l", "e", "a", "s", "e", " ",
      "c", "h", "e", "c", "k", " ", "y", "o", "u", "r", " ", "d", "e", "t",
      "a", "i", "l", "s", ".">>

\* 'Signing in...'
StatusSigningIn ==
    <<"S", "i", "g", "n", "i", "n", "g", " ", "i", "n", ".", ".", ".">>

\* 'Login successful'
StatusLoginOk ==
    <<"L", "o", "g", "i", "n", " ", "s", "u", "c", "c", "e", "s", "s", "f",
      "u", "l">>

\* 'Login failed: '
StatusLoginFailedPrefix ==
    <<"L", "o", "g", "i", "n", " ", "f", "a", "i", "l", "e", "d", ":", " ">>

\* 'Creating account...'
StatusCreating ==
    <<"C", "r", "e", "a", "t", "i", "n", "g", " ", "a", "c", "c", "o", "u",
      "n", "t", ".", ".", ".">>

\* 'Account created successfully'
StatusRegisterOk ==
    <<"A", "c", "c", "o", "u", "n", "t", " ", "c", "r", "e", "a", "t", "e",
      "d", " ", "s", "u", "c", "c", "e", "s", "s", "f", "u", "l", "l", "y">>

\* 'Registration failed: '
StatusRegisterFailedPrefix ==
    <<"R", "e", "g", "i", "s", "t", "r", "a", "t", "i", "o", "n", " ", "f",
      "a", "i", "l", "e", "d", ":", " ">>

\* 'Welcome back to AlgoRhythm!'
ModalWelcomeBack ==
    <<"W", "e", "l", "c", "o", "m", "e", " ", "b", "a", "c", "k", " ", "t",
      "o", " ", "A", "l", "g", "o", "R", "h", "y", "t", "h", "m", "!">>

\* 'Welcome to AlgoRhythm!'
ModalWelcome ==
    <<"W", "e", "l", "c", "o", "m", "e", " ", "t", "o", " ", "A", "l", "g",
      "o", "R", "h", "y", "t", "h", "m", "!">>

\* 'Please enter a valid email address'
ErrEmail ==
    <<"P", "l", "e", "a", "s", "e", " ", "e", "n", "t", "e", "r", " ", "a",
      " ", "v", "a", "l", "i", "d", " ", "e", "m", "a", "i", "l", " ", "a",
      "d", "d", "r", "e", "s", "s">>

\* 'Password is required'
ErrPasswordRequired ==
    <<"P", "a", "s", "s", "w", "o", "r", "d", " ", "i", "s", " ", "r", "e",
      "q", "u", "i", "r", "e", "d">>

\* 'Please enter your full name (at least 2 characters)'
ErrName ==
    <<"P", "l", "e", "a", "s", "e", " ", "e", "n", "t", "e", "r", " ", "y",
      "o", "u", "r", " ", "f", "u", "l", "l", " ", "n", "a", "m", "e", " ",
      "(", "a", "t", " ", "l", "e", "a", "s", "t", " ", "2", " ", "c", "h",
      "a", "r", "a", "c", "t", "e", "r", "s", ")">>

\* 'Password must be at least 8 characters long'
ErrPasswordMin ==
    <<"P", "a", "s", "s", "w", "o", "r", "d", " ", "m", "u", "s", "t", " ",
      "b", "e", " ", "a", "t", " ", "l", "e", "a", "s", "t", " ", "8", " ",
      "c", "h", "a", "r", "a", "c", "t", "e", "r", "s", " ", "l", "o", "n",
      "g">>

\* 'Password must contain uppercase, lowercase, and number'
ErrPasswordComplexity ==
    <<"P", "a", "s", "s", "w", "o", "r", "d", " ", "m", "u", "s", "t", " ",
      "c", "o", "n", "t", "a", "i", "n", " ", "u", "p", "p", "e", "r", "c",
      "a", "s", "e", ",", " ", "l", "o", "w", "e", "r", "c", "a", "s", "e",
      ",", " ", "a", "n", "d", " ", "n", "u", "m", "b", "e", "r">>

\* 'Passwords do not match'
ErrMismatch ==
    <<"P", "a", "s", "s", "w", "o", "r", "d", "s", " ", "d", "o", " ", "n",
      "o", "t", " ", "m", "a", "t", "c", "h">>

\* 'Registration failed. Please try again.'
ToastRegisterFailedMin ==
    <<"R", "e", "g", "i", "s", "t", "r", "a", "t", "i", "o", "n", " ", "f",
      "a", "i", "l", "e", "d", ".", " ", "P", "l", "e", "a", "s", "e", " ",
      "t", "r", "y", " ", "a", "g", "a", "i", "n", ".">>

\* 'google'
ProviderGoogle ==
    <<"g", "o", "o", "g", "l", "e">>

\* 'github'
ProviderGithub ==
    <<"g", "i", "t", "h", "u", "b">>

\* 'Connecting to '
ToastConnectingPrefix ==
    <<"C", "o", "n", "n", "e", "c", "t", "i", "n", "g", " ", "t", "o", " ">>

\* '...'
ToastConnectingSuffix ==
    <<".", ".", ".">>

\* 'Successfully connected with '
ModalConnectedPrefix ==
    <<"S", "u", "c", "c", "e", "s", "s", "f", "u", "l", "l", "y", " ", "c",
      "o", "n", "n", "e", "c", "t", "e", "d", " ", "w", "i", "t", "h", " ">>

\* '!'
ModalConnectedSuffix ==
    <<"!">>

\* 'Failed to connect with '
ToastConnectFailedPrefix ==
    <<"F", "a", "i", "l", "e", "d", " ", "t", "o", " ", "c", "o", "n", "n",
      "e", "c", "t", " ", "w", "i", "t", "h", " ">>

\* ' authentication failed'
ProviderFailedSuffix ==
    <<" ", "a", "u", "t", "h", "e", "n", "t", "i", "c", "a", "t", "i", "o",
      "n", " ", "f", "a", "i", "l", "e", "d">>

\* 'a b@c.com'
EmailSpace ==
    <<"a", " ", "b", "@", "c", ".", "c", "o", "m">>

\* 'abcdefgh'
PwNoComplexity ==
    <<"a", "b", "c", "d", "e", "f", "g", "h">>

\* 'Password must contain at least one uppercase letter, one lowercase letter, and one number'
ErrPasswordComplexity2025 ==
    <<"P", "a", "s", "s", "w", "o", "r", "d", " ", "m", "u", "s", "t", " ",
      "c", "o", "n", "t", "a", "i", "n", " ", "a", "t", " ", "l", "e", "a",
      "s", "t", " ", "o", "n", "e", " ", "u", "p", "p", "e", "r", "c", "a",
      "s", "e", " ", "l", "e", "t", "t", "e", "r", ",", " ", "o", "n", "e",
      " ", "l", "o", "w", "e", "r", "c", "a", "s", "e", " ", "l", "e", "t",
      "t", "e", "r", ",", " ", "a", "n", "d", " ", "o", "n", "e", " ", "n",
      "u", "m", "b", "e", "r">>

\* 'xyxyxy'
PwXy6 ==
    <<"x", "y", "x", "y", "x", "y">>

\* '12121212121'
PwDigits11 ==
    <<"1", "2", "1", "2", "1", "2", "1", "2", "1", "2", "1">>

\* 'AlgoRhythm ready to use! (party popper emoji)'
ToastReady ==
    <<"A", "l", "g", "o", "R", "h", "y", "t", "h", "m", " ", "r", "e", "a",
      "d", "y", " ", "t", "o", " ", "u", "s", "e", "!", " ", "U+1F389">>

\* 'AlgoRhythm ready! (party popper emoji)'
ToastReadyMin ==
    <<"A", "l", "g", "o", "R", "h", "y", "t", "h", "m", " ", "r", "e", "a",
      "d", "y", "!", " ", "U+1F389">>

\* 'Failed to initialize application'
ToastInitFailed ==
    <<"F", "a", "i", "l", "e", "d", " ", "t", "o", " ", "i", "n", "i", "t",
      "i", "a", "l", "i", "z", "e", " ", "a", "p", "p", "l", "i", "c", "a",
      "t", "i", "o", "n">>

\* ' is required'
SuffixIsRequired ==
    <<" ", "i", "s", " ", "r", "e", "q", "u", "i", "r", "e", "d">>

\* 'NETWORK'
WordNetworkCaps ==
    <<"N", "E", "T", "W", "O", "R", "K">>

\* 'invalid'
WordInvalidLower ==
    <<"i", "n", "v", "a", "l", "i", "d">>

\* 'timeout'
WordTimeout ==
    <<"t", "i", "m", "e", "o", "u", "t">>

\* 'Network error. Please check your connection and try again.'
ToastNetwork2025 ==
    <<"N", "e", "t", "w", "o", "r", "k", " ", "e", "r", "r", "o", "r", ".",
      " ", "P", "l", "e", "a", "s", "e", " ", "c", "h", "e", "c", "k", " ",
      "y", "o", "u", "r", " ", "c", "o", "n", "n", "e", "c", "t", "i", "o",
      "n", " ", "a", "n", "d", " ", "t", "r", "y", " ", "a", "g", "a", "i",
      "n", ".">>

\* 'Invalid credentials. Please check your email and password.'
ToastCredentials2025 ==
    <<"I", "n", "v", "a", "l", "i", "d", " ", "c", "r", "e", "d", "e", "n",
      "t", "i", "a", "l", "s", ".", " ", "P", "l", "e", "a", "s", "e", " ",
      "c", "h", "e", "c", "k", " ", "y", "o", "u", "r", " ", "e", "m", "a",
      "i", "l", " ", "a", "n", "d", " ", "p", "a", "s", "s", "w", "o", "r",
      "d", ".">>

\* 'abcdefghijklmnopqrstuvwxyz'
LowerSeq ==
    <<"a", "b", "c", "d", "e", "f", "g", "h", "i", "j", "k", "l", "m", "n",
      "o", "p", "q", "r", "s", "t", "u", "v", "w", "x", "y", "z">>

\* 'ABCDEFGHIJKLMNOPQRSTUVWXYZ'
UpperSeq ==
    <<"A", "B", "C", "D", "E", "F", "G", "H", "I", "J", "K", "L", "M", "N",
      "O", "P", "Q", "R", "S", "T", "U", "V", "W", "X", "Y", "Z">>

(***************************************************************************)
(* Bounded input sets (values typed into the form fields).                 *)
(***************************************************************************)
Emails ==
    {EmailOk, TestErrorCom, TestNetworkCom, EmailNoDot}

LoginPasswords ==
    {EmptyStr, PwSecret}

Names ==
    {NameJo, NameSpJSp}

RegisterPasswords ==
    {PwAbcdefg1, PwShort}

\* FormData of the login form: fields email, password.
LoginInputs ==
    [email : Emails, password : LoginPasswords]

\* FormData of the register form: fields name, email, password,
\* confirmPassword.  A well-formed registration with each email, and one
\* registration per field that fails its check.
RegisterInputs ==
    {[name |-> NameJo, email |-> e, password |-> PwAbcdefg1,
      confirmPassword |-> PwAbcdefg1] : e \in Emails}
      \cup {[name |-> NameSpJSp, email |-> EmailOk, password |-> PwAbcdefg1,
             confirmPassword |-> PwAbcdefg1],
            [name |-> NameJo, email |-> EmailOk, password |-> PwShort,
             confirmPassword |-> PwShort],
            [name |-> NameJo, email |-> EmailOk, password |-> PwAbcdefg1,
             confirmPassword |-> PwShort]}

(***************************************************************************)
(* String helpers.                                                         *)
(***************************************************************************)
\* String.prototype.includes
Includes(s, sub) ==
    \E i \in 0..(Len(s) - Len(sub)) : SubSeq(s, i + 1, i + Len(sub)) = sub

\* A trim that returns its argument.
TrimIdentity(s) ==
    s

\* String.prototype.trim
Trim(s) ==
    LET idx == {i \in 1..Len(s) : s[i] \notin Whitespace}
        lo == CHOOSE i \in idx : \A k \in idx : i <= k
        hi == CHOOSE i \in idx : \A k \in idx : k <= i
    IN  IF idx = {} THEN << >> ELSE SubSeq(s, lo, hi)

\* RegExp.prototype.test for a single character class: some character of s
\* is in the class.
TestClass(s, class) ==
    \E i \in 1..Len(s) : s[i] \in class

\* obj.field when the property exists, undefined (here: absent) otherwise;
\* `obj.field || dflt`.
OrDefault(obj, fld, dflt) ==
    IF fld \in DOMAIN obj /\ obj[fld] # << >> THEN obj[fld] ELSE dflt

(***************************************************************************)
(* The page.  The elements the controller looks up by id or selector.      *)
(***************************************************************************)
ErrorSlotIds ==
    {"email-error", "password-error", "name-error", "register-email-error",
     "register-password-error", "confirm-password-error"}

StatusIds ==
    {"login-status", "register-status"}

Forms ==
    {"login", "register"}

\* Ids and selectors that resolve to an element of the host page: the page
\* fulfils the DOM contract the controller expects.
PageElements ==
    ErrorSlotIds \cup StatusIds
      \cup {"toast-container", "successModal", "successMessage",
            "login.btn-primary", "register.btn-primary"}

\* document.getElementById(id) / querySelector: TRUE when an element is
\* found.
GetElement(id) ==
    id \in PageElements

(***************************************************************************)
(* Field validators (fixed variant).                                       *)
(***************************************************************************)
\* The pattern without its ^ and $ anchors: some substring of email matches.
IsValidEmailUnanchored(email) ==
    \E a, b \in 1..Len(email) :
        \E i, j \in a..b :
            /\ a < i
            /\ i + 1 < j
            /\ j < b
            /\ email[i] = "@"
            /\ email[j] = "."
            /\ \A k \in (a..b) \ {i} : email[k] \notin Whitespace \cup {"@"}

\* /^[^\s@]+@[^\s@]+\.[^\s@]+$/.test(email): email = A @ B . C with A, B, C
\* non-empty and free of whitespace and '@'.
IsValidEmail(email) ==
    \E i, j \in 1..Len(email) :
        /\ 1 < i
        /\ i + 1 < j
        /\ j < Len(email)
        /\ email[i] = "@"
        /\ email[j] = "."
        /\ \A k \in (1..Len(email)) \ {i} : email[k] \notin Whitespace \cup {"@"}

\* validatePassword(password) of the minimal variant: no complexity check.
ValidatePasswordMinimal(password) ==
    IF password = << >>
    THEN [isValid |-> FALSE, message |-> ErrPasswordRequired]
    ELSE IF Len(password) < 8
    THEN [isValid |-> FALSE, message |-> ErrPasswordMin]
    ELSE [isValid |-> TRUE]

\* A validatePassword that tests the character classes before the length.
ValidatePasswordComplexityFirst(password) ==
    IF password = << >>
    THEN [isValid |-> FALSE, message |-> ErrPasswordRequired]
    ELSE IF ~(TestClass(password, Lower) /\ TestClass(password, Upper)
              /\ TestClass(password, Digit))
    THEN [isValid |-> FALSE, message |-> ErrPasswordComplexity]
    ELSE IF Len(password) < 8
    THEN [isValid |-> FALSE, message |-> ErrPasswordMin]
    ELSE [isValid |-> TRUE]

\* validatePassword(password): { isValid, message }.
ValidatePassword(password) ==
    IF password = << >>
    THEN [isValid |-> FALSE, message |-> ErrPasswordRequired]
    ELSE IF Len(password) < 8
    THEN [isValid |-> FALSE, message |-> ErrPasswordMin]
    ELSE IF ~(TestClass(password, Lower) /\ TestClass(password, Upper)
              /\ TestClass(password, Digit))
    THEN [isValid |-> FALSE, message |-> ErrPasswordComplexity]
    ELSE [isValid |-> TRUE]

\* showFieldError(elementId, message) on the error slots.
ShowFieldError(slots, elementId, message) ==
    IF GetElement(elementId)
    THEN [slots EXCEPT ![elementId] =
              [textContent |-> message, ariaLive |-> "polite"]]
    ELSE slots

\* A clearFieldError that leaves the slot as it is.
ClearFieldErrorKeeps(slots, elementId) ==
    slots

\* clearFieldError(elementId) on the error slots.
ClearFieldError(slots, elementId) ==
    IF GetElement(elementId)
    THEN [slots EXCEPT ![elementId] =
              [textContent |-> EmptyStr, ariaLive |-> "none"]]
    ELSE slots

\* validateLoginForm(credentials): the verdict and the error slots it leaves.
ValidateLoginForm(credentials, slots) ==
    LET emailOk == IsValidEmail(credentials.email)
        pwOk    == ~(credentials.password = << >>
                     \/ Len(credentials.password) < 1)
        s1 == IF ~emailOk
              THEN ShowFieldError(slots, "email-error", ErrEmail)
              ELSE ClearFieldError(slots, "email-error")
        s2 == IF ~pwOk
              THEN ShowFieldError(s1, "password-error", ErrPasswordRequired)
              ELSE ClearFieldError(s1, "password-error")
    IN  [isValid |-> emailOk /\ pwOk, slots |-> s2]

\* validateRegisterForm(userData) that stops at the first failed check.
ValidateRegisterFormShortCircuit(userData, slots) ==
    LET nameOk  == ~(userData.name = << >> \/ Len(Trim(userData.name)) < 2)
        emailOk == IsValidEmail(userData.email)
        passwordValidation == ValidatePassword(userData.password)
        matchOk == userData.password = userData.confirmPassword
    IN  IF ~nameOk
        THEN [isValid |-> FALSE,
              slots |-> ShowFieldError(slots, "name-error", ErrName)]
        ELSE IF ~emailOk
        THEN [isValid |-> FALSE,
              slots |-> ShowFieldError(
                            ClearFieldError(slots, "name-error"),
                            "register-email-error", ErrEmail)]
        ELSE IF ~passwordValidation.isValid
        THEN [isValid |-> FALSE,
              slots |-> ShowFieldError(
                            ClearFieldError(
                                ClearFieldError(slots, "name-error"),
                                "register-email-error"),
                            "register-password-error",
                            passwordValidation.message)]
        ELSE [isValid |-> matchOk,
              slots |-> LET s3 == ClearFieldError(
                                      ClearFieldError(
                                          ClearFieldError(slots,
                                                          "name-error"),
                                          "register-email-error"),
                                      "register-password-error")
                        IN  IF ~matchOk
                            THEN ShowFieldError(s3, "confirm-password-error",
                                                ErrMismatch)
                            ELSE ClearFieldError(s3,
                                                 "confirm-password-error")]

\* validateRegisterForm(userData): the verdict and the error slots it
\* leaves.
ValidateRegisterForm(userData, slots) ==
    LET nameOk  == ~(userData.name = << >> \/ Len(Trim(userData.name)) < 2)
        emailOk == IsValidEmail(userData.email)
        passwordValidation == ValidatePassword(userData.password)
        matchOk == userData.password = userData.confirmPassword
        s1 == IF ~nameOk
              THEN ShowFieldError(slots, "name-error", ErrName)
              ELSE ClearFieldError(slots, "name-error")
        s2 == IF ~emailOk
              THEN ShowFieldError(s1, "register-email-error", ErrEmail)
              ELSE ClearFieldError(s1, "register-email-error")
        s3 == IF ~passwordValidation.isValid
              THEN ShowFieldError(s2, "register-password-error",
                                  passwordValidation.message)
              ELSE ClearFieldError(s2, "register-password-error")
        s4 == IF ~matchOk
              THEN ShowFieldError(s3, "confirm-password-error", ErrMismatch)
              ELSE ClearFieldError(s3, "confirm-password-error")
    IN  [isValid |-> nameOk /\ emailOk /\ passwordValidation.isValid
                       /\ matchOk,
         slots |-> s4]

(***************************************************************************)
(* The mocked authentication call.                                         *)
(***************************************************************************)
\* Samples of Math.random(), in thousandths: a value of [0, 1).
RandomSamples ==
    {0, 999}

AuthenticateUserOneSentinel(credentials, type, rnd) ==
    [delay  |-> IF type = "register"
                THEN 2000 + (rnd * 1000) \div 1000
                ELSE 1000 + (rnd * 500) \div 1000,
     result |-> IF credentials.email = TestErrorCom
                THEN [threw |-> TRUE, message |-> MsgInvalidCredentials]
                ELSE [threw   |-> FALSE,
                      success |-> TRUE,
                      user    |-> [email |-> credentials.email,
                                   name  |-> OrDefault(credentials, "name",
                                                       MsgDefaultUser)],
                      token   |-> MsgMockToken]]

\* authenticateUser(credentials, type) with Math.random() = rnd / 1000: the
\* delay it awaits (ms) and how its promise settles.  user.id
\* (crypto.randomUUID()) is a fresh opaque value and is left out.
AuthenticateUser(credentials, type, rnd) ==
    [delay  |-> IF type = "register"
                THEN 2000 + (rnd * 1000) \div 1000
                ELSE 1000 + (rnd * 500) \div 1000,
     result |-> IF credentials.email = TestErrorCom
                THEN [threw |-> TRUE, message |-> MsgInvalidCredentials]
                ELSE IF credentials.email = TestNetworkCom
                THEN [threw |-> TRUE, message |-> MsgNetworkFailed]
                ELSE [threw   |-> FALSE,
                      success |-> TRUE,
                      user    |-> [email |-> credentials.email,
                                   name  |-> OrDefault(credentials, "name",
                                                       MsgDefaultUser)],
                      token   |-> MsgMockToken]]

(***************************************************************************)
(* State.                                                                  *)
(***************************************************************************)
VARIABLES
    registrationInProgress, \* this.registrationInProgress (the guard)
    button,       \* the two submit buttons: form -> [loading, disabled,
                  \*   ariaBusy, background]
    status,       \* the status regions: id -> textContent
    errorSlot,    \* the error slots: id -> [textContent, ariaLive]
    modal,        \* the success modal: [show, ariaHidden, message]
    toasts,       \* children of the toast container, in order
    toastTimers,  \* pending callbacks of the toasts: [id, kind, ms]
    toastCount,   \* number of toasts created so far
    pending,      \* handler invocations suspended at an await
    timers,       \* other pending setTimeout callbacks: [kind, id, ms, ...]
    rejected,     \* ids of handler invocations whose promise rejected
    events,       \* DOM events dispatched so far, per target
    validated,    \* observation: runs of the submit-time validators
    authCalls,    \* observation: mock calls started
    settled,      \* observation: mock calls settled, with their result
    call,         \* a direct call of one function: its arguments and result
    boot,         \* the construction of the controller: its page, its
                  \* progress and what it has set up
    redirected,   \* observation: invocations of redirectToApp, in order
    debounced,    \* the debounced input listeners: their pending timers,
                  \* each closure's `timeout`, and the fields they validate
    inputs,       \* the inputs the user edits: id -> [type, value,
                  \*   ariaInvalid]
    toggles,      \* the .password-toggle button of each password input:
                  \*   id of the input -> [icon, ariaLabel, clicks]
    container     \* the panel container: its 'active' class, the clicks
                  \* on the two panel buttons and the view transitions
                  \* the page has queued

\* The controller and its page.
ctl ==
    <<registrationInProgress, button, status, errorSlot, modal, toasts,
      toastTimers, toastCount, pending, timers, rejected, events, validated,
      authCalls, settled>>

\* The inputs, their toggles and the panel container.
view ==
    <<inputs, toggles, container>>

vars ==
    <<ctl, call, boot, redirected, debounced, view>>

\* The DOM state written by the handlers.
dom ==
    <<button, status, errorSlot, modal, toasts, toastTimers, toastCount>>

EventTargets ==
    {"loginForm", "registerForm", "socialBtn"}

EventCount ==
    events["loginForm"] + events["registerForm"] + events["socialBtn"]

\* Id of the handler invocation the next event starts.
NextId ==
    EventCount + 1

(***************************************************************************)
(* DOM effects (fixed variant).                                            *)
(***************************************************************************)
\* e.target.querySelector('.btn-primary') of a form.
SubmitBtn(form) ==
    IF form = "login" THEN "login.btn-primary" ELSE "register.btn-primary"

\* A setButtonLoading that only toggles the class and aria-busy.
SetButtonLoadingClassOnly(btns, form, loading) ==
    IF ~GetElement(SubmitBtn(form))
    THEN btns
    ELSE IF loading
    THEN [btns EXCEPT ![form].loading = TRUE, ![form].ariaBusy = "true"]
    ELSE [btns EXCEPT ![form].loading = FALSE, ![form].ariaBusy = "false"]

SetButtonLoadingKeepsDisabled(btns, form, loading) ==
    IF ~GetElement(SubmitBtn(form))
    THEN btns
    ELSE IF loading
    THEN [btns EXCEPT ![form].loading = TRUE, ![form].disabled = TRUE,
                      ![form].ariaBusy = "true"]
    ELSE [btns EXCEPT ![form].loading = FALSE, ![form].ariaBusy = "false"]

\* setButtonLoading(button, loading).
SetButtonLoading(btns, form, loading) ==
    IF ~GetElement(SubmitBtn(form))
    THEN btns
    ELSE IF loading
    THEN [btns EXCEPT ![form].loading = TRUE, ![form].disabled = TRUE,
                      ![form].ariaBusy = "true"]
    ELSE [btns EXCEPT ![form].loading = FALSE, ![form].disabled = FALSE,
                      ![form].ariaBusy = "false"]

\* A setButtonSuccess that leaves the background as it is.
SetButtonSuccessNoBackground(btns, form) ==
    IF ~GetElement(SubmitBtn(form))
    THEN btns
    ELSE [btns EXCEPT ![form].loading = FALSE,
                      ![form].ariaBusy = "false"]

\* setButtonSuccess(button): the button after the call.  The revert timer
\* it schedules is RevertTimer.
SetButtonSuccess(btns, form) ==
    IF ~GetElement(SubmitBtn(form))
    THEN btns
    ELSE [btns EXCEPT ![form].loading = FALSE,
                      ![form].background = "success",
                      ![form].ariaBusy = "false"]

\* setButtonSuccess(button): the setTimeout(..., 3000) that clears the
\* background.
RevertTimer(form, id) ==
    IF ~GetElement(SubmitBtn(form))
    THEN {}
    ELSE {[kind |-> "revert", id |-> id, form |-> form, ms |-> 3000]}

\* showSuccessModal(message).
ShowSuccessModal(m, message) ==
    LET m1 == IF GetElement("successMessage")
              THEN [m EXCEPT !.message = message]
              ELSE m
    IN  IF GetElement("successModal")
        THEN [m1 EXCEPT !.show = TRUE, !.ariaHidden = "false"]
        ELSE m1

\* updateStatus(elementId, message).
UpdateStatus(st, elementId, message) ==
    IF GetElement(elementId)
    THEN [st EXCEPT ![elementId] = message]
    ELSE st

\* Properties the object literal `icons` inherits from Object.prototype,
\* with the text each gives when it is interpolated into the class
\* attribute.
InheritedMembers ==
    [constructor |-> "function Object() { [native code] }",
     toString    |-> "function toString() { [native code] }"]

\* getToastIcon(type): `icons[type] || icons.info`.  The property lookup
\* follows the prototype chain, so an inherited member (a function, truthy)
\* is returned for its name.
GetToastIcon(type) ==
    CASE type = "success" -> "fas fa-check-circle"
      [] type = "error"   -> "fas fa-exclamation-circle"
      [] type = "warning" -> "fas fa-exclamation-triangle"
      [] type = "info"    -> "fas fa-info-circle"
      [] type \in DOMAIN InheritedMembers -> InheritedMembers[type]
      [] OTHER            -> "fas fa-info-circle"

\* showToast(message, type): the toast is appended to the container and its
\* two callbacks (next animation frame, 4000 ms) are scheduled.
ShowToast(message, type) ==
    IF ~GetElement("toast-container")
    THEN UNCHANGED <<toasts, toastTimers, toastCount>>
    ELSE /\ toastCount' = toastCount + 1
         /\ toasts' = Append(toasts,
                [id |-> toastCount + 1, className |-> <<"toast", type>>,
                 icon |-> GetToastIcon(type), message |-> message,
                 show |-> FALSE])
         /\ toastTimers' = toastTimers \cup
                {[id |-> toastCount + 1, kind |-> "frame", ms |-> 0],
                 [id |-> toastCount + 1, kind |-> "hide", ms |-> 4000]}

\* A classification that looks for the credentials words first.
AuthErrorMessageCredentialsFirst(error) ==
    IF Includes(error.message, SubCredentials)
         \/ Includes(error.message, SubInvalid)
    THEN ToastCredentials
    ELSE IF Includes(error.message, SubNetworkLower)
         \/ Includes(error.message, SubNetworkUpper)
    THEN ToastNetwork
    ELSE ToastGeneric

\* handleAuthError(error, button): the toast message chosen for the error.
AuthErrorMessage(error) ==
    IF Includes(error.message, SubNetworkLower)
         \/ Includes(error.message, SubNetworkUpper)
    THEN ToastNetwork
    ELSE IF Includes(error.message, SubCredentials)
         \/ Includes(error.message, SubInvalid)
    THEN ToastCredentials
    ELSE ToastGeneric

\* handleAuthError(error, button).
HandleAuthError(error, form) ==
    /\ button' = SetButtonLoading(button, form, FALSE)
    /\ ShowToast(AuthErrorMessage(error), "error")

\* String.prototype.toUpperCase on one character.
ToUpperCase(c) ==
    IF c \in Lower
    THEN UpperSeq[CHOOSE i \in 1..Len(LowerSeq) : LowerSeq[i] = c]
    ELSE c

\* capitalizeFirst(str).
CapitalizeFirst(str) ==
    IF str = << >> THEN << >> ELSE <<ToUpperCase(Head(str))>> \o Tail(str)

\* authenticateWithProvider(provider) with Math.random() = rnd / 1000.
AuthenticateWithProvider(provider, rnd) ==
    [delay  |-> 1000,
     result |-> IF rnd > 100
                THEN [threw    |-> FALSE,
                      success  |-> TRUE,
                      provider |-> provider,
                      user     |-> [email |-> <<"u", "s", "e", "r", "@">>
                                                \o provider
                                                \o <<".", "c", "o", "m">>,
                                    name  |-> provider
                                                \o <<" ", "U", "s", "e", "r">>]]
                ELSE [threw   |-> TRUE,
                      message |-> provider \o ProviderFailedSuffix]]

Providers ==
    {ProviderGoogle, ProviderGithub}

(***************************************************************************)
(* Control flow of the submit handlers (fixed variant).                    *)
(***************************************************************************)
ValidationFailedIgnored(v) ==
    FALSE

\* `if (!this.validateLoginForm(credentials)) return;` and its twin in
\* handleRegister: the handler returns before the try block's work.
ValidationFailed(v) ==
    ~v.isValid

RegistrationGuardOff ==
    FALSE

\* `if (this.registrationInProgress) return;`
RegistrationGuard ==
    registrationInProgress

\* Whether the identifier submitBtn that the catch block passes to
\* handleAuthError resolves there.  handleLogin declares it in the function
\* body; handleRegister declares it with const inside the try block, so in
\* its catch block the reference throws a ReferenceError.
SubmitBtnInCatchScope(handler) ==
    handler = "login"

\* A finally block that is skipped when the try block returns early.
FinallySkippedOnReturn(tm, id, exit) ==
    IF exit = "return"
    THEN tm
    ELSE tm \cup {[kind |-> "cooldown", id |-> id, form |-> "register",
                   ms |-> 1000]}

FinallySkippedOnThrow(tm, id, exit) ==
    IF exit = "throw"
    THEN tm
    ELSE tm \cup {[kind |-> "cooldown", id |-> id, form |-> "register",
                   ms |-> 1000]}

\* The finally block of handleRegister: schedules the timer that clears the
\* guard.  It runs however the try/catch was left: "return" (validation
\* failed), "normal" (end of try or of catch) or "throw" (the catch block
\* threw).
Finally(tm, id, exit) ==
    tm \cup {[kind |-> "cooldown", id |-> id, form |-> "register",
              ms |-> 1000]}

\* One status region for both forms.
StatusIdShared(form) ==
    "login-status"

StatusId(form) ==
    IF form = "login" THEN "login-status" ELSE "register-status"

(***************************************************************************)
(* Construction of the controller (fixed variant).                         *)
(***************************************************************************)
\* The elements verifyCriticalElements requires.
CriticalElements ==
    {"container", "registerBtn", "loginBtn", "loginForm", "registerForm"}

\* document.readyState when the script runs.
ReadyStates ==
    {"loading", "complete"}

\* A setup step in which the host environment throws: none, the
\* window-level registrations at the end of setupEventListeners, or
\* setupCursorFollower.
SetupFaults ==
    {"none", "setupEventListeners", "setupCursorFollower"}

\* A verifyCriticalElements that only requires the two forms.
VerifyCriticalElementsFormsOnly(page) ==
    {"loginForm", "registerForm"} \subseteq page

\* verifyCriticalElements(): no critical element is missing.
VerifyCriticalElements(page) ==
    {key \in CriticalElements : key \notin page} = {}

\* setupEventListeners(): the targets that get a listener; each cached
\* element is guarded by a null check.
SetupEventListeners(page) ==
    (page \cap {"registerBtn", "loginBtn", "loginForm", "registerForm"})
      \cup {"window", "document"}

\* handleInitializationError(error): the fallback panel is appended to the
\* body.
HandleInitializationError(b) ==
    [b EXCEPT !.fallbackPanels = @ + 1, !.pc = "done"]

\* initializeComponents(): the construction record after the call.
InitializeComponents(b) ==
    IF ~VerifyCriticalElements(b.page)
    THEN \* throw new Error('Critical DOM elements missing')
         HandleInitializationError(b)
    ELSE IF b.fault = "setupEventListeners"
    THEN \* the catch of setupEventListeners rethrows
         HandleInitializationError(
             [b EXCEPT !.listeners =
                           b.page \cap {"registerBtn", "loginBtn",
                                        "loginForm", "registerForm"}])
    ELSE IF b.fault = "setupCursorFollower"
    THEN HandleInitializationError(
             [b EXCEPT !.listeners = SetupEventListeners(b.page)])
    ELSE [b EXCEPT !.listeners = SetupEventListeners(b.page),
                   !.initialized = TRUE,
                   !.readyToast = "scheduled",
                   !.pc = "done"]

\* The construction record of a page on which initialization has succeeded
\* and the 'ready' toast has been shown.
BootDone ==
    [pc |-> "done", page |-> CriticalElements, readyState |-> "complete",
     fault |-> "none", initialized |-> TRUE,
     listeners |-> SetupEventListeners(CriticalElements),
     fallbackPanels |-> 0, readyToast |-> "fired"]

\* The construction records before `new AuthManager()`: any set of critical
\* elements on the page, either ready state, any setup fault.
BootStarts ==
    {[pc |-> "new", page |-> page, readyState |-> rs, fault |-> f,
      initialized |-> FALSE, listeners |-> {}, fallbackPanels |-> 0,
      readyToast |-> "none"] :
        page \in SUBSET CriticalElements, rs \in ReadyStates,
        f \in SetupFaults}

(***************************************************************************)
(* Initial state: the controller has been constructed on a page that holds *)
(* every element it looks up, initialization has succeeded and the 'ready' *)
(* toast has come and gone.                                                *)
(***************************************************************************)
\* The required inputs whose debounced listeners are followed.
DebouncedFields ==
    {"loginEmail", "loginPassword"}

\* The debounced listeners after setupInputEventListeners(): no timer is
\* pending, each closure's `timeout` is undefined (0), nothing has been
\* typed since the last validation of a field.
DebounceIdle ==
    [timers |-> {},
     nextTimerId |-> 1,
     timeout |-> [f \in DebouncedFields |-> 0],
     field |-> [f \in DebouncedFields |->
                   [value |-> EmptyStr, ariaInvalid |-> "unset",
                    sinceInput |-> 0, bursts |-> 0, validations |-> 0]]]

\* The inputs whose content and attributes are followed: those of the login
\* form.
FieldIds ==
    {"loginEmail", "loginPassword"}

\* The inputs that sit next to a .password-toggle button.
PasswordFieldIds ==
    {"loginPassword"}

\* The inputs as the page loads them: empty, no aria-invalid attribute,
\* the password input masked.
InputsIdle ==
    [f \in FieldIds |->
        [type |-> IF f \in PasswordFieldIds THEN "password" ELSE "email",
         value |-> EmptyStr, ariaInvalid |-> "unset"]]

\* The toggles as the page loads them, in the presentation
\* togglePasswordVisibility gives a masked input: the icon 'fa-eye' and the
\* label 'Show password'.  clicks counts the click events dispatched on the
\* toggle.
TogglesIdle ==
    [f \in PasswordFieldIds |->
        [icon |-> "fa-eye", ariaLabel |-> "Show password", clicks |-> 0]]

\* The container as the page loads it: the login panel is shown, no panel
\* button has been clicked, no announcement is in the body, no focus timer
\* or view transition is pending.
ContainerIdle ==
    [active |-> FALSE, lastClick |-> "none", clicks |-> 0,
     announcements |-> 0, focusTimers |-> {}, focus |-> "none",
     transitions |-> << >>]

\* The controller's fields and the page as the constructor finds them.
FreshPage ==
    /\ registrationInProgress = FALSE
    /\ button = [f \in Forms |->
                    [loading |-> FALSE, disabled |-> FALSE,
                     ariaBusy |-> "unset", background |-> ""]]
    /\ status = [s \in StatusIds |-> EmptyStr]
    /\ errorSlot = [s \in ErrorSlotIds |->
                       [textContent |-> EmptyStr, ariaLive |-> "none"]]
    /\ modal = [show |-> FALSE, ariaHidden |-> "true", message |-> EmptyStr]
    /\ toasts = << >>
    /\ toastTimers = {}
    /\ toastCount = 0
    /\ pending = {}
    /\ timers = {}
    /\ rejected = {}
    /\ events = [t \in EventTargets |-> 0]
    /\ validated = {}
    /\ authCalls = {}
    /\ settled = {}
    /\ call = [fn |-> "none"]
    /\ redirected = << >>
    /\ debounced = DebounceIdle
    /\ inputs = InputsIdle
    /\ toggles = TogglesIdle
    /\ container = ContainerIdle

Init ==
    /\ FreshPage
    /\ boot = BootDone

(***************************************************************************)
(* Actions (fixed variant).                                                *)
(***************************************************************************)
\* A handleLogin that ignores a submit while a login call is pending.
SubmitLoginSingleFlight(credentials) ==
    /\ EventCount < MaxEvents
    /\ events' = [events EXCEPT !["loginForm"] = @ + 1]
    /\ IF \E q \in pending : q.handler = "login"
       THEN UNCHANGED <<errorSlot, validated, button, status, pending,
                        authCalls>>
       ELSE LET id == NextId
                v  == ValidateLoginForm(credentials, errorSlot)
            IN  /\ errorSlot' = v.slots
                /\ validated' = validated \cup
                       {[id |-> id, form |-> "login", isValid |-> v.isValid]}
                /\ IF ValidationFailed(v)
                   THEN UNCHANGED <<button, status, pending, authCalls>>
                   ELSE \E rnd \in RandomSamples :
                          /\ button' = SetButtonLoading(button, "login", TRUE)
                          /\ status' = UpdateStatus(status, "login-status",
                                                    StatusSigningIn)
                          /\ pending' = pending \cup
                                 {[id |-> id, handler |-> "login",
                                   credentials |-> credentials,
                                   pc |-> "authenticateUser", rnd |-> rnd]}
                          /\ authCalls' = authCalls \cup
                                 {[id |-> id, type |-> "login",
                                   credentials |-> credentials,
                                   delay |-> AuthenticateUser(credentials,
                                                 "login", rnd).delay]}
    /\ UNCHANGED <<registrationInProgress, modal, toasts, toastTimers,
                   toastCount, timers, rejected, settled>>
    /\ UNCHANGED <<call, boot, redirected, debounced, view>>

\* handleLogin(e), up to its first await.
SubmitLogin(credentials) ==
    /\ EventCount < MaxEvents
    /\ events' = [events EXCEPT !["loginForm"] = @ + 1]
    /\ LET id == NextId
           v  == ValidateLoginForm(credentials, errorSlot)
       IN  /\ errorSlot' = v.slots
           /\ validated' = validated \cup
                  {[id |-> id, form |-> "login", isValid |-> v.isValid]}
           /\ IF ValidationFailed(v)
              THEN UNCHANGED <<button, status, pending, authCalls>>
              ELSE \E rnd \in RandomSamples :
                     /\ button' = SetButtonLoading(button, "login", TRUE)
                     /\ status' = UpdateStatus(status, "login-status",
                                               StatusSigningIn)
                     /\ pending' = pending \cup
                            {[id |-> id, handler |-> "login",
                              credentials |-> credentials,
                              pc |-> "authenticateUser", rnd |-> rnd]}
                     /\ authCalls' = authCalls \cup
                            {[id |-> id, type |-> "login",
                              credentials |-> credentials,
                              delay |-> AuthenticateUser(credentials, "login",
                                                         rnd).delay]}
    /\ UNCHANGED <<registrationInProgress, modal, toasts, toastTimers,
                   toastCount, timers, rejected, settled>>
    /\ UNCHANGED <<call, boot, redirected, debounced, view>>

\* handleRegister(e), up to its first await.
SubmitRegister(userData) ==
    /\ EventCount < MaxEvents
    /\ events' = [events EXCEPT !["registerForm"] = @ + 1]
    /\ IF RegistrationGuard
       THEN UNCHANGED <<registrationInProgress, button, status, errorSlot,
                        pending, timers, validated, authCalls>>
       ELSE LET id == NextId
                v  == ValidateRegisterForm(userData, errorSlot)
            IN  /\ registrationInProgress' = TRUE
                /\ errorSlot' = v.slots
                /\ validated' = validated \cup
                       {[id |-> id, form |-> "register",
                         isValid |-> v.isValid]}
                /\ IF ValidationFailed(v)
                   THEN /\ timers' = Finally(timers, id, "return")
                        /\ UNCHANGED <<button, status, pending, authCalls>>
                   ELSE \E rnd \in RandomSamples :
                          /\ button' = SetButtonLoading(button, "register",
                                                        TRUE)
                          /\ status' = UpdateStatus(status, "register-status",
                                                    StatusCreating)
                          /\ pending' = pending \cup
                                 {[id |-> id, handler |-> "register",
                                   credentials |-> userData,
                                   pc |-> "authenticateUser", rnd |-> rnd]}
                          /\ authCalls' = authCalls \cup
                                 {[id |-> id, type |-> "register",
                                   credentials |-> userData,
                                   delay |-> AuthenticateUser(userData,
                                                 "register", rnd).delay]}
                          /\ UNCHANGED timers
    /\ UNCHANGED <<modal, toasts, toastTimers, toastCount, rejected, settled>>
    /\ UNCHANGED <<call, boot, redirected, debounced, view>>

\* The delay inside authenticateUser elapses: the mock call settles and
\* handleLogin / handleRegister resumes, up to its next await or its end.
AuthSettle(p) ==
    /\ p \in pending
    /\ p.pc = "authenticateUser"
    /\ LET form == p.handler
           r    == AuthenticateUser(p.credentials, form, p.rnd).result
       IN  /\ settled' = settled \cup
                  {[id |-> p.id, type |-> form, credentials |-> p.credentials,
                    result |-> r]}
           /\ IF ~r.threw
              THEN \* if (result.success) { ... await this.delay(2000) }
                   /\ button' = SetButtonSuccess(button, form)
                   /\ timers' = timers \cup RevertTimer(form, p.id)
                   /\ modal' = ShowSuccessModal(modal,
                                   IF form = "login" THEN ModalWelcomeBack
                                                     ELSE ModalWelcome)
                   /\ status' = UpdateStatus(status, StatusId(form),
                                   IF form = "login" THEN StatusLoginOk
                                                     ELSE StatusRegisterOk)
                   /\ pending' = (pending \ {p})
                                   \cup {[p EXCEPT !.pc = "delay"]}
                   /\ UNCHANGED <<toasts, toastTimers, toastCount, rejected>>
              ELSE IF SubmitBtnInCatchScope(form)
              THEN \* catch (error) { handleAuthError; updateStatus }
                   /\ HandleAuthError(r, form)
                   /\ status' = UpdateStatus(status, StatusId(form),
                                   (IF form = "login"
                                    THEN StatusLoginFailedPrefix
                                    ELSE StatusRegisterFailedPrefix)
                                     \o r.message)
                   /\ timers' = IF form = "register"
                                THEN Finally(timers, p.id, "normal")
                                ELSE timers
                   /\ pending' = pending \ {p}
                   /\ UNCHANGED <<modal, rejected>>
              ELSE \* the catch block throws before it calls anything
                   /\ rejected' = rejected \cup {p.id}
                   /\ timers' = IF form = "register"
                                THEN Finally(timers, p.id, "throw")
                                ELSE timers
                   /\ pending' = pending \ {p}
                   /\ UNCHANGED <<button, status, modal, toasts, toastTimers,
                                  toastCount>>
    /\ UNCHANGED <<registrationInProgress, errorSlot, events, validated,
                   authCalls>>
    /\ UNCHANGED <<call, boot, redirected, debounced, view>>

\* A handler end whose finally block clears the guard at once.
DelayDoneClearsGuard(p) ==
    /\ p \in pending
    /\ p.pc = "delay"
    /\ pending' = pending \ {p}
    /\ registrationInProgress' =
           IF p.handler = "register" THEN FALSE ELSE registrationInProgress
    /\ UNCHANGED <<timers, button, status, errorSlot, modal,
                   toasts, toastTimers, toastCount, rejected, events,
                   validated, authCalls, settled>>
    /\ UNCHANGED <<call, boot, redirected, debounced, view>>

\* A handler end that goes on to redirectToApp().
DelayDoneRedirects(p) ==
    /\ p \in pending
    /\ p.pc = "delay"
    /\ pending' = pending \ {p}
    /\ timers' = IF p.handler = "register"
                 THEN Finally(timers, p.id, "normal")
                 ELSE timers
    /\ redirected' = Append(redirected,
                         [id |-> p.id, handler |-> p.handler,
                          href |-> "/dashboard"])
    /\ UNCHANGED <<registrationInProgress, button, status, errorSlot, modal,
                   toasts, toastTimers, toastCount, rejected, events,
                   validated, authCalls, settled>>
    /\ UNCHANGED <<call, boot, debounced, view>>

\* `await this.delay(2000)` after a success elapses: the handler logs and
\* ends (handleRegister through its finally block).
DelayDone(p) ==
    /\ p \in pending
    /\ p.pc = "delay"
    /\ pending' = pending \ {p}
    /\ timers' = IF p.handler = "register"
                 THEN Finally(timers, p.id, "normal")
                 ELSE timers
    /\ UNCHANGED <<registrationInProgress, button, status, errorSlot, modal,
                   toasts, toastTimers, toastCount, rejected, events,
                   validated, authCalls, settled>>
    /\ UNCHANGED <<call, boot, redirected, debounced, view>>

\* The timer of the finally block fires.
CooldownFire(t) ==
    /\ t \in timers
    /\ t.kind = "cooldown"
    /\ registrationInProgress' = FALSE
    /\ timers' = timers \ {t}
    /\ UNCHANGED <<button, status, errorSlot, modal, toasts, toastTimers,
                   toastCount, pending, rejected, events, validated,
                   authCalls, settled>>
    /\ UNCHANGED <<call, boot, redirected, debounced, view>>

\* The timer of setButtonSuccess fires.
RevertFire(t) ==
    /\ t \in timers
    /\ t.kind = "revert"
    /\ button' = [button EXCEPT ![t.form].background = ""]
    /\ timers' = timers \ {t}
    /\ UNCHANGED <<registrationInProgress, status, errorSlot, modal, toasts,
                   toastTimers, toastCount, pending, rejected, events,
                   validated, authCalls, settled>>
    /\ UNCHANGED <<call, boot, redirected, debounced, view>>

\* requestAnimationFrame callback of a toast.
ToastFrame(t) ==
    /\ t \in toastTimers
    /\ t.kind = "frame"
    /\ toasts' = [i \in DOMAIN toasts |->
                     IF toasts[i].id = t.id
                     THEN [toasts[i] EXCEPT !.show = TRUE]
                     ELSE toasts[i]]
    /\ toastTimers' = toastTimers \ {t}
    /\ UNCHANGED <<registrationInProgress, button, status, errorSlot, modal,
                   toastCount, pending, timers, rejected, events, validated,
                   authCalls, settled>>
    /\ UNCHANGED <<call, boot, redirected, debounced, view>>

\* The 4000 ms callback of a toast: 'show' is removed and the removal is
\* scheduled.
ToastHide(t) ==
    /\ t \in toastTimers
    /\ t.kind = "hide"
    /\ toasts' = [i \in DOMAIN toasts |->
                     IF toasts[i].id = t.id
                     THEN [toasts[i] EXCEPT !.show = FALSE]
                     ELSE toasts[i]]
    /\ toastTimers' = (toastTimers \ {t})
                        \cup {[id |-> t.id, kind |-> "remove", ms |-> 300]}
    /\ UNCHANGED <<registrationInProgress, button, status, errorSlot, modal,
                   toastCount, pending, timers, rejected, events, validated,
                   authCalls, settled>>
    /\ UNCHANGED <<call, boot, redirected, debounced, view>>

\* A removal callback that removes the oldest child of the container.
ToastRemoveOldest(t) ==
    /\ t \in toastTimers
    /\ t.kind = "remove"
    /\ toasts' = IF toasts = << >> THEN toasts ELSE Tail(toasts)
    /\ toastTimers' = toastTimers \ {t}
    /\ UNCHANGED <<registrationInProgress, button, status, errorSlot, modal,
                   toastCount, pending, timers, rejected, events, validated,
                   authCalls, settled>>
    /\ UNCHANGED <<call, boot, redirected, debounced, view>>

\* The 300 ms callback of a toast: it is removed from its parent, if any.
ToastRemove(t) ==
    /\ t \in toastTimers
    /\ t.kind = "remove"
    /\ toasts' = SelectSeq(toasts, LAMBDA x : x.id # t.id)
    /\ toastTimers' = toastTimers \ {t}
    /\ UNCHANGED <<registrationInProgress, button, status, errorSlot, modal,
                   toastCount, pending, timers, rejected, events, validated,
                   authCalls, settled>>
    /\ UNCHANGED <<call, boot, redirected, debounced, view>>

\* handleSocialAuth(e), up to its first await.
SocialClick(provider) ==
    /\ EventCount < MaxEvents
    /\ events' = [events EXCEPT !["socialBtn"] = @ + 1]
    /\ ShowToast(ToastConnectingPrefix \o CapitalizeFirst(provider)
                   \o ToastConnectingSuffix, "info")
    /\ pending' = pending \cup
           {[id |-> NextId, handler |-> "social",
             credentials |-> [provider |-> provider],
             pc |-> "authenticateWithProvider", rnd |-> 0]}
    /\ UNCHANGED <<registrationInProgress, button, status, errorSlot, modal,
                   timers, rejected, validated, authCalls, settled>>
    /\ UNCHANGED <<call, boot, redirected, debounced, view>>

\* The delay inside authenticateWithProvider elapses: the call settles and
\* handleSocialAuth resumes.
SocialSettle(p) ==
    /\ p \in pending
    /\ p.pc = "authenticateWithProvider"
    /\ \E rnd \in RandomSamples :
         LET provider == p.credentials.provider
             r == AuthenticateWithProvider(provider, rnd).result
         IN  IF ~r.threw
             THEN /\ modal' = ShowSuccessModal(modal,
                                  ModalConnectedPrefix
                                    \o CapitalizeFirst(provider)
                                    \o ModalConnectedSuffix)
                  /\ pending' = (pending \ {p})
                                  \cup {[p EXCEPT !.pc = "delay"]}
                  /\ UNCHANGED <<toasts, toastTimers, toastCount>>
             ELSE /\ ShowToast(ToastConnectFailedPrefix
                                 \o CapitalizeFirst(provider), "error")
                  /\ pending' = pending \ {p}
                  /\ UNCHANGED modal
    /\ UNCHANGED <<registrationInProgress, button, status, errorSlot, timers,
                   rejected, events, validated, authCalls, settled>>
    /\ UNCHANGED <<call, boot, redirected, debounced, view>>

\* Callbacks of timers and animation frames.
TimerNext ==
    \/ \E t \in timers : CooldownFire(t)
    \/ \E t \in timers : RevertFire(t)
    \/ \E t \in toastTimers : ToastFrame(t)
    \/ \E t \in toastTimers : ToastHide(t)
    \/ \E t \in toastTimers : ToastRemove(t)

(***************************************************************************)
(* Specifications of the fixed variant.                                    *)
(***************************************************************************)
\* The login and registration forms.
Next ==
    \/ \E credentials \in LoginInputs : SubmitLogin(credentials)
    \/ \E userData \in RegisterInputs : SubmitRegister(userData)
    \/ \E p \in pending : AuthSettle(p)
    \/ \E p \in pending : DelayDone(p)
    \/ TimerNext

Spec ==
    Init /\ [][Next]_vars

\* The forms and the social login buttons.
FullNext ==
    \/ \E credentials \in LoginInputs : SubmitLogin(credentials)
    \/ \E userData \in RegisterInputs : SubmitRegister(userData)
    \/ \E provider \in Providers : SocialClick(provider)
    \/ \E p \in pending : AuthSettle(p)
    \/ \E p \in pending : SocialSettle(p)
    \/ \E p \in pending : DelayDone(p)
    \/ TimerNext

FullSpec ==
    Init /\ [][FullNext]_vars

\* The registration form alone.  The event loop runs every callback that is
\* due: a pending delay or timer eventually fires.
RegisterNext ==
    \/ \E userData \in RegisterInputs : SubmitRegister(userData)
    \/ \E p \in pending : AuthSettle(p)
    \/ \E p \in pending : DelayDone(p)
    \/ \E t \in timers : CooldownFire(t)
    \/ \E t \in timers : RevertFire(t)

RegisterFairSpec ==
    /\ Init
    /\ [][RegisterNext]_vars
    /\ WF_vars(\E p \in pending : AuthSettle(p))
    /\ WF_vars(\E p \in pending : DelayDone(p))
    /\ WF_vars(\E t \in timers : CooldownFire(t))
    /\ WF_vars(\E t \in timers : RevertFire(t))

\* FormData of the login form on the success path and beside it: a
\* well-formed login, a sentinel email, and an email that fails validation.
LoginPathInputs ==
    [email : {EmailOk, TestErrorCom, EmailNoDot}, password : {PwSecret}]

\* The login form alone, with the event loop running every due callback.
LoginNext ==
    \/ \E credentials \in LoginPathInputs : SubmitLogin(credentials)
    \/ \E p \in pending : AuthSettle(p)
    \/ \E p \in pending : DelayDone(p)
    \/ \E t \in timers : RevertFire(t)
    \/ \E t \in toastTimers : ToastFrame(t)
    \/ \E t \in toastTimers : ToastHide(t)
    \/ \E t \in toastTimers : ToastRemove(t)

LoginFairSpec ==
    /\ Init
    /\ [][LoginNext]_vars
    /\ WF_vars(\E p \in pending : AuthSettle(p))
    /\ WF_vars(\E p \in pending : DelayDone(p))
    /\ WF_vars(\E t \in timers : RevertFire(t))
    /\ WF_vars(\E t \in toastTimers : ToastFrame(t))
    /\ WF_vars(\E t \in toastTimers : ToastHide(t))
    /\ WF_vars(\E t \in toastTimers : ToastRemove(t))

(***************************************************************************)
(* 2025 variant: the mocked authentication call.                           *)
(***************************************************************************)
\* authenticateUser(credentials, type) of the 2025 variant with
\* Math.random() = rnd / 1000.
AuthenticateUser2025(credentials, type, rnd) ==
    [delay  |-> (rnd * 1000) \div 1000 + 1000,
     result |-> IF credentials.email = TestErrorCom
                THEN [threw |-> TRUE, message |-> MsgInvalidCredentials]
                ELSE IF credentials.email = TestNetworkCom
                THEN [threw |-> TRUE, message |-> MsgNetworkFailed]
                ELSE [threw   |-> FALSE,
                      success |-> TRUE,
                      user    |-> [email |-> credentials.email,
                                   name  |-> OrDefault(credentials, "name",
                                                       MsgDefaultUser)],
                      token   |-> MsgMockToken]]

(***************************************************************************)
(* Direct calls of authenticateUser, on any credentials object.            *)
(***************************************************************************)
Variants ==
    {"fixed", "2025"}

AuthTypes ==
    {"login", "register"}

\* Credentials objects: those of the login form (no name property) and
\* those of the register form, valid or not.
AuthCredentials ==
    [email : Emails, password : LoginPasswords \cup RegisterPasswords]
      \cup [name : Names \cup {EmptyStr}, email : Emails,
            password : RegisterPasswords,
            confirmPassword : RegisterPasswords]

\* One call of authenticateUser, awaited to its end.
CallAuthenticateUser(variant, credentials, type, rnd) ==
    /\ call' = [fn |-> "authenticateUser", variant |-> variant,
                credentials |-> credentials, type |-> type, rnd |-> rnd,
                ret |-> IF variant = "fixed"
                        THEN AuthenticateUser(credentials, type, rnd)
                        ELSE AuthenticateUser2025(credentials, type, rnd)]
    /\ UNCHANGED <<ctl, boot, redirected, debounced, view>>

AuthNext ==
    \E variant \in Variants, credentials \in AuthCredentials,
       type \in AuthTypes, rnd \in RandomSamples :
        CallAuthenticateUser(variant, credentials, type, rnd)

AuthSpec ==
    Init /\ [][AuthNext]_vars

(***************************************************************************)
(* Minimal variant (src/script-merged.js).                                 *)
(***************************************************************************)
\* showFieldError(elementId, message).
ShowFieldErrorMin(slots, elementId, message) ==
    IF GetElement(elementId)
    THEN [slots EXCEPT ![elementId].textContent = message]
    ELSE slots

\* clearFieldError(elementId).
ClearFieldErrorMin(slots, elementId) ==
    IF GetElement(elementId)
    THEN [slots EXCEPT ![elementId].textContent = EmptyStr]
    ELSE slots

\* validateLoginForm(credentials).
ValidateLoginFormMin(credentials, slots) ==
    LET emailOk == IsValidEmail(credentials.email)
        pwOk    == ~(credentials.password = << >>
                     \/ Len(credentials.password) < 1)
        s1 == IF ~emailOk
              THEN ShowFieldErrorMin(slots, "email-error", ErrEmail)
              ELSE ClearFieldErrorMin(slots, "email-error")
        s2 == IF ~pwOk
              THEN ShowFieldErrorMin(s1, "password-error",
                                     ErrPasswordRequired)
              ELSE ClearFieldErrorMin(s1, "password-error")
    IN  [isValid |-> emailOk /\ pwOk, slots |-> s2]

\* validateRegisterForm(userData).
ValidateRegisterFormMin(userData, slots) ==
    LET nameOk  == ~(userData.name = << >> \/ Len(Trim(userData.name)) < 2)
        emailOk == IsValidEmail(userData.email)
        passwordValidation == ValidatePasswordMinimal(userData.password)
        matchOk == userData.password = userData.confirmPassword
        s1 == IF ~nameOk
              THEN ShowFieldErrorMin(slots, "name-error", ErrName)
              ELSE ClearFieldErrorMin(slots, "name-error")
        s2 == IF ~emailOk
              THEN ShowFieldErrorMin(s1, "register-email-error", ErrEmail)
              ELSE ClearFieldErrorMin(s1, "register-email-error")
        s3 == IF ~passwordValidation.isValid
              THEN ShowFieldErrorMin(s2, "register-password-error",
                                     passwordValidation.message)
              ELSE ClearFieldErrorMin(s2, "register-password-error")
        s4 == IF ~matchOk
              THEN ShowFieldErrorMin(s3, "confirm-password-error",
                                     ErrMismatch)
              ELSE ClearFieldErrorMin(s3, "confirm-password-error")
    IN  [isValid |-> nameOk /\ emailOk /\ passwordValidation.isValid
                       /\ matchOk,
         slots |-> s4]

\* setButtonLoading(button, loading).
SetButtonLoadingMin(btns, form, loading) ==
    IF ~GetElement(SubmitBtn(form))
    THEN btns
    ELSE IF loading
    THEN [btns EXCEPT ![form].loading = TRUE, ![form].disabled = TRUE]
    ELSE [btns EXCEPT ![form].loading = FALSE, ![form].disabled = FALSE]

\* setButtonSuccess(button): the button after the call; its
\* setTimeout(..., 3000) is the same as the fixed variant's (RevertTimer).
SetButtonSuccessMin(btns, form) ==
    IF ~GetElement(SubmitBtn(form))
    THEN btns
    ELSE [btns EXCEPT ![form].loading = FALSE,
                      ![form].background = "success"]

\* showSuccessModal(message).
ShowSuccessModalMin(m, message) ==
    IF ~GetElement("successModal")
    THEN m
    ELSE LET m1 == IF GetElement("successMessage")
                   THEN [m EXCEPT !.message = message]
                   ELSE m
         IN  [m1 EXCEPT !.show = TRUE]

\* showToast(message, type): the container is created when the page has
\* none; then as in the fixed variant.
ShowToastMin(message, type) ==
    /\ toastCount' = toastCount + 1
    /\ toasts' = Append(toasts,
           [id |-> toastCount + 1, className |-> <<"toast", type>>,
            icon |-> GetToastIcon(type), message |-> message,
            show |-> FALSE])
    /\ toastTimers' = toastTimers \cup
           {[id |-> toastCount + 1, kind |-> "frame", ms |-> 0],
            [id |-> toastCount + 1, kind |-> "hide", ms |-> 4000]}

\* The `setTimeout(() => console.log(...), 2000)` after a success.
LogTimer(form, id) ==
    {[kind |-> "log", id |-> id, form |-> form, ms |-> 2000]}

\* handleLogin(e), up to `await this.delay(1500)`.
MinSubmitLogin(credentials) ==
    /\ EventCount < MaxEvents
    /\ events' = [events EXCEPT !["loginForm"] = @ + 1]
    /\ LET id == NextId
           v  == ValidateLoginFormMin(credentials, errorSlot)
       IN  /\ errorSlot' = v.slots
           /\ validated' = validated \cup
                  {[id |-> id, form |-> "login", isValid |-> v.isValid]}
           /\ IF ~v.isValid
              THEN UNCHANGED <<button, pending, authCalls>>
              ELSE /\ button' = SetButtonLoadingMin(button, "login", TRUE)
                   /\ pending' = pending \cup
                          {[id |-> id, handler |-> "login",
                            credentials |-> credentials,
                            pc |-> "delay", rnd |-> 0]}
                   /\ authCalls' = authCalls \cup
                          {[id |-> id, type |-> "login",
                            credentials |-> credentials, delay |-> 1500]}
    /\ UNCHANGED <<registrationInProgress, status, modal, toasts,
                   toastTimers, toastCount, timers, rejected, settled>>
    /\ UNCHANGED <<call, boot, redirected, debounced, view>>

\* handleLogin resumes after the delay: the mocked outcome.
MinLoginResume(p) ==
    /\ p \in pending
    /\ p.handler = "login"
    /\ pending' = pending \ {p}
    /\ IF p.credentials.email = TestErrorCom
       THEN \* throw new Error('Invalid credentials'), caught below
            /\ settled' = settled \cup
                   {[id |-> p.id, type |-> "login",
                     credentials |-> p.credentials,
                     result |-> [threw |-> TRUE,
                                 message |-> MsgInvalidCredentials]]}
            /\ button' = SetButtonLoadingMin(button, "login", FALSE)
            /\ ShowToastMin(MsgInvalidCredentials, "error")
            /\ UNCHANGED <<modal, timers>>
       ELSE /\ settled' = settled \cup
                   {[id |-> p.id, type |-> "login",
                     credentials |-> p.credentials,
                     result |-> [threw |-> FALSE]]}
            /\ button' = SetButtonSuccessMin(button, "login")
            /\ modal' = ShowSuccessModalMin(modal, ModalWelcomeBack)
            /\ timers' = timers \cup RevertTimer("login", p.id)
                           \cup LogTimer("login", p.id)
            /\ UNCHANGED <<toasts, toastTimers, toastCount>>
    /\ UNCHANGED <<registrationInProgress, status, errorSlot, rejected,
                   events, validated, authCalls>>
    /\ UNCHANGED <<call, boot, redirected, debounced, view>>

\* handleRegister(e), up to `await this.delay(2000)`.
MinSubmitRegister(userData) ==
    /\ EventCount < MaxEvents
    /\ events' = [events EXCEPT !["registerForm"] = @ + 1]
    /\ LET id == NextId
           v  == ValidateRegisterFormMin(userData, errorSlot)
       IN  /\ errorSlot' = v.slots
           /\ validated' = validated \cup
                  {[id |-> id, form |-> "register", isValid |-> v.isValid]}
           /\ IF ~v.isValid
              THEN UNCHANGED <<button, pending, authCalls>>
              ELSE /\ button' = SetButtonLoadingMin(button, "register", TRUE)
                   /\ pending' = pending \cup
                          {[id |-> id, handler |-> "register",
                            credentials |-> userData,
                            pc |-> "delay", rnd |-> 0]}
                   /\ authCalls' = authCalls \cup
                          {[id |-> id, type |-> "register",
                            credentials |-> userData, delay |-> 2000]}
    /\ UNCHANGED <<registrationInProgress, status, modal, toasts,
                   toastTimers, toastCount, timers, rejected, settled>>
    /\ UNCHANGED <<call, boot, redirected, debounced, view>>

\* handleRegister resumes after the delay: nothing in its try block throws.
MinRegisterResume(p) ==
    /\ p \in pending
    /\ p.handler = "register"
    /\ pending' = pending \ {p}
    /\ settled' = settled \cup
           {[id |-> p.id, type |-> "register", credentials |-> p.credentials,
             result |-> [threw |-> FALSE]]}
    /\ button' = SetButtonSuccessMin(button, "register")
    /\ modal' = ShowSuccessModalMin(modal, ModalWelcome)
    /\ timers' = timers \cup RevertTimer("register", p.id)
                   \cup LogTimer("register", p.id)
    /\ UNCHANGED <<registrationInProgress, status, errorSlot, toasts,
                   toastTimers, toastCount, rejected, events, validated,
                   authCalls>>
    /\ UNCHANGED <<call, boot, redirected, debounced, view>>

\* The logging timer fires: nothing but the console changes.
LogFire(t) ==
    /\ t \in timers
    /\ t.kind = "log"
    /\ timers' = timers \ {t}
    /\ UNCHANGED <<registrationInProgress, button, status, errorSlot, modal,
                   toasts, toastTimers, toastCount, pending, rejected, events,
                   validated, authCalls, settled>>
    /\ UNCHANGED <<call, boot, redirected, debounced, view>>

MinimalNext ==
    \/ \E credentials \in LoginInputs : MinSubmitLogin(credentials)
    \/ \E userData \in RegisterInputs : MinSubmitRegister(userData)
    \/ \E p \in pending : MinLoginResume(p)
    \/ \E p \in pending : MinRegisterResume(p)
    \/ \E t \in timers : RevertFire(t)
    \/ \E t \in timers : LogFire(t)
    \/ \E t \in toastTimers : ToastFrame(t)
    \/ \E t \in toastTimers : ToastHide(t)
    \/ \E t \in toastTimers : ToastRemove(t)

MinimalSpec ==
    Init /\ [][MinimalNext]_vars

(***************************************************************************)
(* 2025 variant: the form validators.  Its showFieldError and               *)
(* clearFieldError are the same statements as the fixed variant's.         *)
(***************************************************************************)
\* validatePassword(password) of the 2025 variant.
ValidatePassword2025(password) ==
    IF password = << >>
    THEN [isValid |-> FALSE, message |-> ErrPasswordRequired]
    ELSE IF Len(password) < 8
    THEN [isValid |-> FALSE, message |-> ErrPasswordMin]
    ELSE IF ~(TestClass(password, Lower) /\ TestClass(password, Upper)
              /\ TestClass(password, Digit))
    THEN [isValid |-> FALSE, message |-> ErrPasswordComplexity2025]
    ELSE [isValid |-> TRUE]

\* validateLoginForm(credentials) of the 2025 variant.
ValidateLoginForm2025(credentials, slots) ==
    LET emailOk == IsValidEmail(credentials.email)
        pwOk    == ~(credentials.password = << >>
                     \/ Len(credentials.password) < 1)
        s1 == IF ~emailOk
              THEN ShowFieldError(slots, "email-error", ErrEmail)
              ELSE ClearFieldError(slots, "email-error")
        s2 == IF ~pwOk
              THEN ShowFieldError(s1, "password-error", ErrPasswordRequired)
              ELSE ClearFieldError(s1, "password-error")
    IN  [isValid |-> emailOk /\ pwOk, slots |-> s2]

\* validateRegisterForm(userData) of the 2025 variant.
ValidateRegisterForm2025(userData, slots) ==
    LET nameOk  == ~(userData.name = << >> \/ Len(Trim(userData.name)) < 2)
        emailOk == IsValidEmail(userData.email)
        passwordValidation == ValidatePassword2025(userData.password)
        matchOk == userData.password = userData.confirmPassword
        s1 == IF ~nameOk
              THEN ShowFieldError(slots, "name-error", ErrName)
              ELSE ClearFieldError(slots, "name-error")
        s2 == IF ~emailOk
              THEN ShowFieldError(s1, "register-email-error", ErrEmail)
              ELSE ClearFieldError(s1, "register-email-error")
        s3 == IF ~passwordValidation.isValid
              THEN ShowFieldError(s2, "register-password-error",
                                  passwordValidation.message)
              ELSE ClearFieldError(s2, "register-password-error")
        s4 == IF ~matchOk
              THEN ShowFieldError(s3, "confirm-password-error", ErrMismatch)
              ELSE ClearFieldError(s3, "confirm-password-error")
    IN  [isValid |-> nameOk /\ emailOk /\ passwordValidation.isValid
                       /\ matchOk,
         slots |-> s4]

(***************************************************************************)
(* Direct calls of the form validators of one variant, in any order, on    *)
(* one page: a call finds the error slots as the calls before it left      *)
(* them.                                                                   *)
(***************************************************************************)
AllVariants ==
    {"fixed", "2025", "minimal"}

ValidateNames ==
    {EmptyStr, NameJo, NameSpJSp}

ValidateEmails ==
    {EmailOk, EmailNoDot, EmailSpace}

ValidatePasswords ==
    {EmptyStr, PwShort, PwAbcdefg1, PwNoComplexity}

\* Credentials objects handed to validateLoginForm.
ValidateLoginInputs ==
    [email : ValidateEmails \cup {EmptyStr}, password : LoginPasswords]

\* User data objects handed to validateRegisterForm.
ValidateConfirmPasswords ==
    {EmptyStr, PwAbcdefg1}

ValidateRegisterInputs ==
    [name : ValidateNames, email : ValidateEmails,
     password : ValidatePasswords,
     confirmPassword : ValidateConfirmPasswords]

\* The page has loaded one variant of the script: every call on it is a
\* call of that variant.
LoadedVariant(variant) ==
    IF call.fn = "none" THEN TRUE ELSE call.variant = variant

\* validateLoginForm of the loaded variant.
ValidateLoginFormOf(variant, credentials, slots) ==
    IF variant = "fixed"
    THEN ValidateLoginForm(credentials, slots)
    ELSE IF variant = "2025"
    THEN ValidateLoginForm2025(credentials, slots)
    ELSE ValidateLoginFormMin(credentials, slots)

\* validateRegisterForm of the loaded variant.
ValidateRegisterFormOf(variant, userData, slots) ==
    IF variant = "fixed"
    THEN ValidateRegisterForm(userData, slots)
    ELSE IF variant = "2025"
    THEN ValidateRegisterForm2025(userData, slots)
    ELSE ValidateRegisterFormMin(userData, slots)

\* One call of validateLoginForm(credentials).  `before` observes the text
\* of the password-error slot as the call found it.
CallValidateLoginForm(variant, credentials) ==
    LET v == ValidateLoginFormOf(variant, credentials, errorSlot)
    IN  /\ LoadedVariant(variant)
        /\ errorSlot' = v.slots
        /\ call' = [fn |-> "validateLoginForm", variant |-> variant,
                    credentials |-> credentials,
                    before |-> errorSlot["password-error"].textContent,
                    ret |-> v.isValid]
        /\ UNCHANGED <<registrationInProgress, button, status, modal, toasts,
                       toastTimers, toastCount, pending, timers, rejected,
                       events, validated, authCalls, settled, boot,
                       redirected, debounced, view>>

\* One call of validateRegisterForm(userData).
CallValidateRegisterForm(variant, userData) ==
    LET v == ValidateRegisterFormOf(variant, userData, errorSlot)
    IN  /\ LoadedVariant(variant)
        /\ errorSlot' = v.slots
        /\ call' = [fn |-> "validateRegisterForm", variant |-> variant,
                    userData |-> userData, ret |-> v.isValid]
        /\ UNCHANGED <<registrationInProgress, button, status, modal, toasts,
                       toastTimers, toastCount, pending, timers, rejected,
                       events, validated, authCalls, settled, boot,
                       redirected, debounced, view>>

ValidateNext ==
    \/ \E variant \in AllVariants, credentials \in ValidateLoginInputs :
          CallValidateLoginForm(variant, credentials)
    \/ \E variant \in AllVariants, userData \in ValidateRegisterInputs :
          CallValidateRegisterForm(variant, userData)

ValidateSpec ==
    Init /\ [][ValidateNext]_vars

(***************************************************************************)
(* Password strength (all variants).                                       *)
(***************************************************************************)
\* The `i` flag of a RegExp on one character: its lower-case form.
ToLowerCase(c) ==
    IF c \in Upper
    THEN LowerSeq[CHOOSE i \in 1..Len(UpperSeq) : UpperSeq[i] = c]
    ELSE c

\* /[^A-Za-z0-9]/.test(password)
TestSymbol(password) ==
    \E i \in 1..Len(password) :
        password[i] \notin Lower \cup Upper \cup Digit

\* /(.)\1{2,}/.test(password): a character followed by itself twice.
TestRepeat(password) ==
    \E i \in 1..(Len(password) - 2) :
        password[i + 1] = password[i] /\ password[i + 2] = password[i]

\* /(?:abc|bcd|...|xyz)/i.test(password): three consecutive letters of the
\* alphabet, in either case.
TestSequential(password) ==
    \E i \in 1..(Len(password) - 2), k \in 1..(Len(LowerSeq) - 2) :
        \A d \in 0..2 : ToLowerCase(password[i + d]) = LowerSeq[k + d]

\* if (cond) score += 1
ScoreIf(cond) ==
    IF cond THEN 1 ELSE 0

\* A fixed-variant score with a seventh check, for the absence of a
\* repeated character.
PasswordScoreSevenChecks(password) ==
    ScoreIf(Len(password) >= 8) + ScoreIf(Len(password) >= 12)
      + ScoreIf(TestClass(password, Lower))
      + ScoreIf(TestClass(password, Upper))
      + ScoreIf(TestClass(password, Digit))
      + ScoreIf(TestSymbol(password))
      + ScoreIf(~TestRepeat(password))

\* The score of calculatePasswordStrength(password), fixed variant.
PasswordScore(password) ==
    ScoreIf(Len(password) >= 8) + ScoreIf(Len(password) >= 12)
      + ScoreIf(TestClass(password, Lower))
      + ScoreIf(TestClass(password, Upper))
      + ScoreIf(TestClass(password, Digit))
      + ScoreIf(TestSymbol(password))

\* The score of calculatePasswordStrength(password), minimal variant.
PasswordScoreMin(password) ==
    ScoreIf(Len(password) >= 8) + ScoreIf(Len(password) >= 12)
      + ScoreIf(TestClass(password, Lower))
      + ScoreIf(TestClass(password, Upper))
      + ScoreIf(TestClass(password, Digit))
      + ScoreIf(TestSymbol(password))

\* A 2025 score that takes a point off for a sequential run.
PasswordScore2025SequentialPenalty(password) ==
    ScoreIf(Len(password) >= 8) + ScoreIf(Len(password) >= 12)
      + ScoreIf(TestClass(password, Lower))
      + ScoreIf(TestClass(password, Upper))
      + ScoreIf(TestClass(password, Digit))
      + ScoreIf(TestSymbol(password))
      + ScoreIf(~TestRepeat(password))
      + ScoreIf(~TestSequential(password))
      - ScoreIf(TestSequential(password))

\* The score of calculatePasswordStrength(password), 2025 variant.
PasswordScore2025(password) ==
    ScoreIf(Len(password) >= 8) + ScoreIf(Len(password) >= 12)
      + ScoreIf(TestClass(password, Lower))
      + ScoreIf(TestClass(password, Upper))
      + ScoreIf(TestClass(password, Digit))
      + ScoreIf(TestSymbol(password))
      + ScoreIf(~TestRepeat(password))
      + ScoreIf(~TestSequential(password))

\* const levels = [...]
Levels ==
    <<[min |-> 0, max |-> 2, level |-> "weak", text |-> "Weak password"],
      [min |-> 3, max |-> 4, level |-> "fair", text |-> "Fair password"],
      [min |-> 5, max |-> 6, level |-> "good", text |-> "Good password"],
      [min |-> 7, max |-> 8, level |-> "strong",
       text |-> "Strong password"]>>

\* A find whose upper limit is exclusive.
FindLevelExclusiveMax(score) ==
    LET hits == {i \in 1..Len(Levels) :
                    score >= Levels[i].min /\ score < Levels[i].max}
    IN  IF hits = {}
        THEN Levels[1]
        ELSE Levels[CHOOSE i \in hits : \A k \in hits : i <= k]

\* levels.find(level => score >= level.min && score <= level.max)
\*   || levels[0]
FindLevel(score) ==
    LET hits == {i \in 1..Len(Levels) :
                    score >= Levels[i].min /\ score <= Levels[i].max}
    IN  IF hits = {}
        THEN Levels[1]
        ELSE Levels[CHOOSE i \in hits : \A k \in hits : i <= k]

\* The score variable of calculatePasswordStrength in the given variant.
PasswordScoreOf(variant, password) ==
    IF variant = "fixed" THEN PasswordScore(password)
    ELSE IF variant = "2025" THEN PasswordScore2025(password)
    ELSE PasswordScoreMin(password)

\* calculatePasswordStrength(password) in the given variant.
CalculatePasswordStrength(variant, password) ==
    FindLevel(PasswordScoreOf(variant, password))

\* validatePassword(password) in the given variant.
ValidatePasswordOf(variant, password) ==
    IF variant = "fixed" THEN ValidatePassword(password)
    ELSE IF variant = "2025" THEN ValidatePassword2025(password)
    ELSE ValidatePasswordMinimal(password)

(***************************************************************************)
(* Direct calls of calculatePasswordStrength and validatePassword on the   *)
(* content of the password field: a pasted value, then characters typed    *)
(* after it.                                                               *)
(***************************************************************************)
MaxTyped == 3

PastedPasswords ==
    {EmptyStr, PwShort, PwAbcdefg1, PwXy6, PwDigits11}

TypedChars ==
    {"a", "b", "C", "1", "!"}

\* calculatePasswordStrength(password) on a pasted value.
CallCalculatePasswordStrength(variant, password) ==
    /\ call' = [fn |-> "calculatePasswordStrength", variant |-> variant,
                password |-> password, typed |-> 0,
                score |-> PasswordScoreOf(variant, password),
                ret |-> CalculatePasswordStrength(variant, password)]
    /\ UNCHANGED <<ctl, boot, redirected, debounced, view>>

\* calculatePasswordStrength(password) after one more character is typed.
TypePasswordChar(c) ==
    /\ call.fn = "calculatePasswordStrength"
    /\ call.typed < MaxTyped
    /\ LET password == Append(call.password, c)
       IN  call' = [call EXCEPT
                       !.password = password,
                       !.typed = @ + 1,
                       !.score = PasswordScoreOf(call.variant, password),
                       !.ret = CalculatePasswordStrength(call.variant,
                                                         password)]
    /\ UNCHANGED <<ctl, boot, redirected, debounced, view>>

\* validatePassword(password) on the current value of the field.
CallValidatePassword ==
    /\ call.fn = "calculatePasswordStrength"
    /\ call' = [fn |-> "validatePassword", variant |-> call.variant,
                password |-> call.password,
                ret |-> ValidatePasswordOf(call.variant, call.password)]
    /\ UNCHANGED <<ctl, boot, redirected, debounced, view>>

PasswordNext ==
    \/ \E variant \in AllVariants, password \in PastedPasswords :
          CallCalculatePasswordStrength(variant, password)
    \/ \E c \in TypedChars : TypePasswordChar(c)
    \/ CallValidatePassword

PasswordSpec ==
    Init /\ [][PasswordNext]_vars

(***************************************************************************)
(* Direct calls of isValidEmail: on a sample address, then on the previous *)
(* argument with one more character after it.                              *)
(***************************************************************************)
MaxEmailTyped == 4

EmailSamples ==
    {EmptyStr, EmailOk, EmailNoDot, EmailSpace}

EmailChars ==
    {"a", "@", ".", " "}

\* isValidEmail(email) on a sample.
CallIsValidEmail(email) ==
    /\ call' = [fn |-> "isValidEmail", email |-> email, typed |-> 0,
                ret |-> IsValidEmail(email)]
    /\ UNCHANGED <<ctl, boot, redirected, debounced, view>>

\* isValidEmail(email) on the previous argument followed by c.
ExtendEmail(c) ==
    /\ call.fn = "isValidEmail"
    /\ call.typed < MaxEmailTyped
    /\ call' = [call EXCEPT !.email = Append(call.email, c),
                            !.typed = @ + 1,
                            !.ret = IsValidEmail(Append(call.email, c))]
    /\ UNCHANGED <<ctl, boot, redirected, debounced, view>>

EmailNext ==
    \/ \E email \in EmailSamples : CallIsValidEmail(email)
    \/ \E c \in EmailChars : ExtendEmail(c)

EmailSpec ==
    Init /\ [][EmailNext]_vars

(***************************************************************************)
(* Construction of the controller on any page.                             *)
(***************************************************************************)
\* constructor() and init(): initialization runs at once unless the
\* document is still loading.
Construct ==
    /\ boot.pc = "new"
    /\ boot' = IF boot.readyState = "loading"
               THEN [boot EXCEPT !.pc = "waiting"]
               ELSE InitializeComponents(boot)
    /\ UNCHANGED <<ctl, call, redirected, debounced, view>>

\* The DOMContentLoaded listener registered by init().
DOMContentLoaded ==
    /\ boot.pc = "waiting"
    /\ boot' = InitializeComponents(boot)
    /\ UNCHANGED <<ctl, call, redirected, debounced, view>>

\* The setTimeout(..., 500) callback of initializeComponents.
ReadyToastFire ==
    /\ boot.readyToast = "scheduled"
    /\ boot' = [boot EXCEPT !.readyToast = "fired"]
    /\ ShowToast(ToastReady, "success")
    /\ UNCHANGED <<registrationInProgress, button, status, errorSlot, modal,
                   pending, timers, rejected, events, validated, authCalls,
                   settled, call, redirected, debounced, view>>

BootInit ==
    /\ FreshPage
    /\ boot \in BootStarts

BootNext ==
    \/ Construct
    \/ DOMContentLoaded
    \/ ReadyToastFire
    \/ \E t \in toastTimers : ToastFrame(t)
    \/ \E t \in toastTimers : ToastHide(t)
    \/ \E t \in toastTimers : ToastRemove(t)

BootSpec ==
    BootInit /\ [][BootNext]_vars

(***************************************************************************)
(* Construction of the controller in the minimal and 2025 variants.        *)
(***************************************************************************)
\* The elements setup() (minimal) and cacheElements() (2025) require.
CheckedElements ==
    {"container", "registerBtn", "loginBtn"}

\* showFallbackError(): the fallback panel is appended to the body.
ShowFallbackError(b) ==
    [b EXCEPT !.fallbackPanels = @ + 1, !.pc = "done"]

\* setup() of the minimal variant: the construction record after the call.
\* setupEventListeners() dereferences the two forms without a null check,
\* after it has attached the listeners of the toggle buttons.
SetupMin(b) ==
    IF ~(CheckedElements \subseteq b.page)
    THEN \* throw new Error('Critical elements not found')
         ShowFallbackError(b)
    ELSE IF "loginForm" \notin b.page
    THEN \* this.loginForm.addEventListener throws a TypeError
         ShowFallbackError(
             [b EXCEPT !.listeners = {"registerBtn", "loginBtn"}])
    ELSE IF "registerForm" \notin b.page
    THEN \* this.registerForm.addEventListener throws a TypeError
         ShowFallbackError(
             [b EXCEPT !.listeners = {"registerBtn", "loginBtn",
                                      "loginForm"}])
    ELSE [b EXCEPT !.listeners = {"registerBtn", "loginBtn", "loginForm",
                                  "registerForm"},
                   !.readyToast = "scheduled",
                   !.pc = "done"]

\* setupEventListeners() of the 2025 variant: every cached element is
\* reached through `?.`.
SetupEventListeners2025(page) ==
    (page \cap {"registerBtn", "loginBtn", "loginForm", "registerForm"})
      \cup {"window", "document"}

\* init() of the 2025 variant up to `await initializeBackgroundEffects()`:
\* the construction record, and whether the catch block has been entered.
Init2025(b) ==
    IF ~(CheckedElements \subseteq b.page)
    THEN \* cacheElements throws; the catch block shows a toast
         [b EXCEPT !.failed = TRUE, !.pc = "done"]
    ELSE [b EXCEPT !.listeners = SetupEventListeners2025(b.page),
                   !.pc = "initializeBackgroundEffects"]

\* The construction records in the two variants before
\* `new AuthManager()`.
VariantBootStarts ==
    {[pc |-> "new", variant |-> v, page |-> page, readyState |-> rs,
      listeners |-> {}, fallbackPanels |-> 0, readyToast |-> "none",
      failed |-> FALSE] :
        v \in {"minimal", "2025"}, page \in SUBSET CriticalElements,
        rs \in ReadyStates}

\* setup() or init(), whichever the variant runs once the DOM is ready; in
\* the 2025 variant the catch block of init() calls showToast.
RunSetup ==
    IF boot.variant = "minimal"
    THEN /\ boot' = SetupMin(boot)
         /\ UNCHANGED <<toasts, toastTimers, toastCount>>
    ELSE /\ boot' = Init2025(boot)
         /\ IF Init2025(boot).failed
            THEN ShowToast(ToastInitFailed, "error")
            ELSE UNCHANGED <<toasts, toastTimers, toastCount>>

\* constructor(): setup runs at once unless the document is still loading.
ConstructVariant ==
    /\ boot.pc = "new"
    /\ IF boot.readyState = "loading"
       THEN /\ boot' = [boot EXCEPT !.pc = "waiting"]
            /\ UNCHANGED <<toasts, toastTimers, toastCount>>
       ELSE RunSetup
    /\ UNCHANGED <<registrationInProgress, button, status, errorSlot, modal,
                   pending, timers, rejected, events, validated, authCalls,
                   settled, call, redirected, debounced, view>>

\* The DOMContentLoaded listener registered by the constructor.
DOMContentLoadedVariant ==
    /\ boot.pc = "waiting"
    /\ RunSetup
    /\ UNCHANGED <<registrationInProgress, button, status, errorSlot, modal,
                   pending, timers, rejected, events, validated, authCalls,
                   settled, call, redirected, debounced, view>>

\* init() of the 2025 variant resumes after
\* `await initializeBackgroundEffects()`, which catches its own errors, and
\* runs to its end.
Init2025Resume ==
    /\ boot.pc = "initializeBackgroundEffects"
    /\ boot' = [boot EXCEPT !.pc = "done"]
    /\ UNCHANGED <<ctl, call, redirected, debounced, view>>

\* The setTimeout(..., 1000) callback of setup() in the minimal variant.
ReadyToastFireMin ==
    /\ boot.readyToast = "scheduled"
    /\ boot' = [boot EXCEPT !.readyToast = "fired"]
    /\ ShowToastMin(ToastReadyMin, "success")
    /\ UNCHANGED <<registrationInProgress, button, status, errorSlot, modal,
                   pending, timers, rejected, events, validated, authCalls,
                   settled, call, redirected, debounced, view>>

VariantBootInit ==
    /\ FreshPage
    /\ boot \in VariantBootStarts

VariantBootNext ==
    \/ ConstructVariant
    \/ DOMContentLoadedVariant
    \/ Init2025Resume
    \/ ReadyToastFireMin
    \/ \E t \in toastTimers : ToastFrame(t)
    \/ \E t \in toastTimers : ToastHide(t)
    \/ \E t \in toastTimers : ToastRemove(t)

VariantBootSpec ==
    VariantBootInit /\ [][VariantBootNext]_vars

(***************************************************************************)
(* Toasts (fixed variant): direct calls of showToast and the callbacks     *)
(* they schedule.                                                          *)
(***************************************************************************)
\* Number of showToast calls explored.
MaxToasts ==
    2

\* The severities passed to showToast: the four with an icon of their own,
\* one that is no property of `icons`, and one that names a property
\* `icons` inherits.
ToastTypes ==
    {"success", "error", "warning", "info", "debug", "constructor"}

\* this.showToast(message, type), called directly.
CallShowToast(message, type) ==
    /\ toastCount < MaxToasts
    /\ ShowToast(message, type)
    /\ call' = [fn |-> "showToast", message |-> message, type |-> type,
                id |-> toastCount + 1]
    /\ UNCHANGED <<registrationInProgress, button, status, errorSlot, modal,
                   pending, timers, rejected, events, validated, authCalls,
                   settled, boot, redirected, debounced, view>>

ToastNext ==
    \/ \E type \in ToastTypes : CallShowToast(ToastGeneric, type)
    \/ \E t \in toastTimers : ToastFrame(t)
    \/ \E t \in toastTimers : ToastHide(t)
    \/ \E t \in toastTimers : ToastRemove(t)

\* The event loop runs every callback that is due.
ToastFairSpec ==
    /\ Init
    /\ [][ToastNext]_vars
    /\ WF_vars(\E t \in toastTimers : ToastFrame(t))
    /\ WF_vars(\E t \in toastTimers : ToastHide(t))
    /\ WF_vars(\E t \in toastTimers : ToastRemove(t))

(***************************************************************************)
(* Real-time validation of one field (all variants).                       *)
(***************************************************************************)
\* The input[required] elements of the two forms: id (getElementById in
\* cacheElements), name (the key FormData.get reads it by), type, and the
\* text getFieldLabel(input) resolves to.
RequiredInputs ==
    {[id |-> "loginEmail", name |-> "email", type |-> "email",
      label |-> <<"E", "m", "a", "i", "l">>],
     [id |-> "loginPassword", name |-> "password", type |-> "password",
      label |-> <<"P", "a", "s", "s", "w", "o", "r", "d">>],
     [id |-> "registerName", name |-> "name", type |-> "text",
      label |-> <<"N", "a", "m", "e">>],
     [id |-> "registerEmail", name |-> "email", type |-> "email",
      label |-> <<"E", "m", "a", "i", "l">>],
     [id |-> "registerPassword", name |-> "password", type |-> "password",
      label |-> <<"P", "a", "s", "s", "w", "o", "r", "d">>],
     [id |-> "confirmPassword", name |-> "confirmPassword",
      type |-> "password",
      label |-> <<"C", "o", "n", "f", "i", "r", "m">>]}

\* What the user has put into the field.
InputValues ==
    {EmptyStr, EmailOk, EmailNoDot, PwShort, PwAbcdefg1, NameJo}

\* The verdict and message validateInput(input) computes in the given
\* variant; the minimal variant has no password branch.
CheckInput(variant, input, value) ==
    LET v == Trim(value)
    IN  IF v = << >>
        THEN [isValid |-> FALSE, message |-> input.label \o SuffixIsRequired]
        ELSE IF input.type = "email" /\ ~IsValidEmail(v)
        THEN [isValid |-> FALSE, message |-> ErrEmail]
        ELSE IF variant # "minimal" /\ input.type = "password"
                  /\ ~ValidatePasswordOf(variant, v).isValid
        THEN [isValid |-> FALSE,
              message |-> ValidatePasswordOf(variant, v).message]
        ELSE [isValid |-> TRUE, message |-> EmptyStr]

\* validateInput of the 2025 variant: the id of errorElement, "null" when
\* neither lookup finds an element.  The first lookup is `${name}-error`.
\* The second replaces, in the id, the id's own hyphenated lower-case form,
\* which does not occur in a camel-case id, so it looks up `${id}-error`.
ErrorElement2025(input) ==
    LET byName == CASE input.name = "email"    -> "email-error"
                    [] input.name = "password" -> "password-error"
                    [] input.name = "name"     -> "name-error"
                    [] OTHER                   -> "confirmPassword-error"
        byId   == CASE input.id = "loginEmail"       -> "loginEmail-error"
                    [] input.id = "loginPassword"    -> "loginPassword-error"
                    [] input.id = "registerName"     -> "registerName-error"
                    [] input.id = "registerEmail"    -> "registerEmail-error"
                    [] input.id = "registerPassword"
                         -> "registerPassword-error"
                    [] OTHER                         -> "confirmPassword-error"
    IN  IF GetElement(byName) THEN byName
        ELSE IF GetElement(byId) THEN byId
        ELSE "null"

\* validateInput(input): the verdict, the message computed, the error slots
\* after the call and the input's aria-invalid attribute.  The fixed and
\* the minimal variant compute the message and do nothing with it.
ValidateInput(variant, input, value, slots) ==
    LET c  == CheckInput(variant, input, value)
        el == ErrorElement2025(input)
    IN  [isValid |-> c.isValid,
         message |-> c.message,
         ariaInvalid |-> ~c.isValid,
         slots |-> IF variant # "2025" \/ el = "null"
                   THEN slots
                   ELSE IF c.isValid
                   THEN ClearFieldError(slots, el)
                   ELSE ShowFieldError(slots, el, c.message)]

\* The blur listener or the debounced input listener of a field runs
\* validateInput(input).
CallValidateInput(variant, input, value) ==
    LET v == ValidateInput(variant, input, value, errorSlot)
    IN  /\ LoadedVariant(variant)
        /\ errorSlot' = v.slots
        /\ call' = [fn |-> "validateInput", variant |-> variant,
                    input |-> input, value |-> value, ret |-> v.isValid,
                    message |-> v.message]
        /\ UNCHANGED <<registrationInProgress, button, status, modal, toasts,
                       toastTimers, toastCount, pending, timers, rejected,
                       events, validated, authCalls, settled, boot,
                       redirected, debounced, view>>

InputNext ==
    \E variant \in AllVariants, input \in RequiredInputs,
       value \in InputValues :
        CallValidateInput(variant, input, value)

InputSpec ==
    Init /\ [][InputNext]_vars

(***************************************************************************)
(* Direct calls of handleAuthError (fixed variant).                        *)
(***************************************************************************)
\* Number of handleAuthError calls explored.
MaxAuthErrors ==
    2

\* Words of an error message: the four substrings handleAuthError looks
\* for, the two messages authenticateUser throws, and words that match
\* nothing (wrong case, unrelated).
ErrorWords ==
    {SubNetworkLower, SubNetworkUpper, SubCredentials, SubInvalid,
     MsgInvalidCredentials, MsgNetworkFailed, WordNetworkCaps,
     WordInvalidLower, WordTimeout}

\* error.message: empty, one word, or two words separated by a space.
ErrorMessages ==
    {EmptyStr} \cup ErrorWords
      \cup {w1 \o <<" ">> \o w2 : w1, w2 \in ErrorWords}

\* this.setButtonLoading(button, loading), called directly.
CallSetButtonLoading(form, loading) ==
    /\ button' = SetButtonLoading(button, form, loading)
    /\ button' # button
    /\ call' = [fn |-> "setButtonLoading", form |-> form,
                loading |-> loading]
    /\ UNCHANGED <<registrationInProgress, status, errorSlot, modal, toasts,
                   toastTimers, toastCount, pending, timers, rejected,
                   events, validated, authCalls, settled, boot, redirected,
                   debounced, view>>

\* this.handleAuthError(error, button), called directly.
CallHandleAuthError(message, form) ==
    /\ toastCount < MaxAuthErrors
    /\ HandleAuthError([message |-> message], form)
    /\ call' = [fn |-> "handleAuthError", message |-> message,
                form |-> form, toastsBefore |-> Len(toasts),
                wasLoading |-> button[form].loading]
    /\ UNCHANGED <<registrationInProgress, status, errorSlot, modal,
                   pending, timers, rejected, events, validated, authCalls,
                   settled, boot, redirected, debounced, view>>

AuthErrorNext ==
    \/ \E form \in Forms, loading \in BOOLEAN :
          CallSetButtonLoading(form, loading)
    \/ \E message \in ErrorMessages, form \in Forms :
          CallHandleAuthError(message, form)

AuthErrorSpec ==
    Init /\ [][AuthErrorNext]_vars

(***************************************************************************)
(* The submit handlers of the 2025 variant, and the three variants side by *)
(* side on pages that each load one of them.                               *)
(***************************************************************************)
\* handleAuthError(error, button) of the 2025 variant.
HandleAuthError2025(error, form) ==
    /\ button' = SetButtonLoading(button, form, FALSE)
    /\ ShowToast(IF Includes(error.message, SubNetworkLower)
                      \/ Includes(error.message, SubNetworkUpper)
                 THEN ToastNetwork2025
                 ELSE IF Includes(error.message, SubCredentials)
                      \/ Includes(error.message, SubInvalid)
                 THEN ToastCredentials2025
                 ELSE ToastGeneric,
                 "error")

\* redirectToApp(): the invocation is recorded; it navigates to
\* '/dashboard' through the Navigation API or location.href.
RedirectToApp(id, handler) ==
    Append(redirected,
           [id |-> id, handler |-> handler, href |-> "/dashboard"])

\* handleLogin(e) of the 2025 variant, up to its first await.
SubmitLogin2025(credentials) ==
    /\ EventCount < MaxEvents
    /\ events' = [events EXCEPT !["loginForm"] = @ + 1]
    /\ LET id == NextId
           v  == ValidateLoginForm2025(credentials, errorSlot)
       IN  /\ errorSlot' = v.slots
           /\ validated' = validated \cup
                  {[id |-> id, form |-> "login", isValid |-> v.isValid]}
           /\ IF ~v.isValid
              THEN UNCHANGED <<button, status, pending, authCalls>>
              ELSE \E rnd \in RandomSamples :
                     /\ button' = SetButtonLoading(button, "login", TRUE)
                     /\ status' = UpdateStatus(status, "login-status",
                                               StatusSigningIn)
                     /\ pending' = pending \cup
                            {[id |-> id, handler |-> "login",
                              credentials |-> credentials,
                              pc |-> "authenticateUser", rnd |-> rnd]}
                     /\ authCalls' = authCalls \cup
                            {[id |-> id, type |-> "login",
                              credentials |-> credentials,
                              delay |-> AuthenticateUser2025(credentials,
                                            "login", rnd).delay]}
    /\ UNCHANGED <<registrationInProgress, modal, toasts, toastTimers,
                   toastCount, timers, rejected, settled>>
    /\ UNCHANGED <<call, boot, redirected, debounced, view>>

\* handleRegister(e) of the 2025 variant, up to its first await.  The
\* variant has no registrationInProgress guard.
SubmitRegister2025(userData) ==
    /\ EventCount < MaxEvents
    /\ events' = [events EXCEPT !["registerForm"] = @ + 1]
    /\ LET id == NextId
           v  == ValidateRegisterForm2025(userData, errorSlot)
       IN  /\ errorSlot' = v.slots
           /\ validated' = validated \cup
                  {[id |-> id, form |-> "register", isValid |-> v.isValid]}
           /\ IF ~v.isValid
              THEN UNCHANGED <<button, status, pending, authCalls>>
              ELSE \E rnd \in RandomSamples :
                     /\ button' = SetButtonLoading(button, "register", TRUE)
                     /\ status' = UpdateStatus(status, "register-status",
                                               StatusCreating)
                     /\ pending' = pending \cup
                            {[id |-> id, handler |-> "register",
                              credentials |-> userData,
                              pc |-> "authenticateUser", rnd |-> rnd]}
                     /\ authCalls' = authCalls \cup
                            {[id |-> id, type |-> "register",
                              credentials |-> userData,
                              delay |-> AuthenticateUser2025(userData,
                                            "register", rnd).delay]}
    /\ UNCHANGED <<registrationInProgress, modal, toasts, toastTimers,
                   toastCount, timers, rejected, settled>>
    /\ UNCHANGED <<call, boot, redirected, debounced, view>>

\* The delay inside authenticateUser elapses: the mock call settles and the
\* handler resumes, up to `await this.delay(2000)` or through its catch
\* block to its end.
AuthSettle2025(p) ==
    /\ p \in pending
    /\ p.pc = "authenticateUser"
    /\ LET form == p.handler
           r    == AuthenticateUser2025(p.credentials, form, p.rnd).result
       IN  /\ settled' = settled \cup
                  {[id |-> p.id, type |-> form, credentials |-> p.credentials,
                    result |-> r]}
           /\ IF ~r.threw
              THEN /\ button' = SetButtonSuccess(button, form)
                   /\ timers' = timers \cup RevertTimer(form, p.id)
                   /\ modal' = ShowSuccessModal(modal,
                                   IF form = "login" THEN ModalWelcomeBack
                                                     ELSE ModalWelcome)
                   /\ status' = UpdateStatus(status, StatusId(form),
                                   IF form = "login" THEN StatusLoginOk
                                                     ELSE StatusRegisterOk)
                   /\ pending' = (pending \ {p})
                                   \cup {[p EXCEPT !.pc = "delay"]}
                   /\ UNCHANGED <<toasts, toastTimers, toastCount>>
              ELSE /\ HandleAuthError2025(r, form)
                   /\ status' = UpdateStatus(status, StatusId(form),
                                   (IF form = "login"
                                    THEN StatusLoginFailedPrefix
                                    ELSE StatusRegisterFailedPrefix)
                                     \o r.message)
                   /\ pending' = pending \ {p}
                   /\ UNCHANGED <<modal, timers>>
    /\ UNCHANGED <<registrationInProgress, errorSlot, rejected, events,
                   validated, authCalls>>
    /\ UNCHANGED <<call, boot, redirected, debounced, view>>

\* `await this.delay(2000)` after a success elapses (form or social
\* handler): redirectToApp() is invoked; its completion ends the handler.
DelayDone2025(p) ==
    /\ p \in pending
    /\ p.pc = "delay"
    /\ pending' = pending \ {p}
    /\ redirected' = RedirectToApp(p.id, p.handler)
    /\ UNCHANGED <<registrationInProgress, button, status, errorSlot, modal,
                   toasts, toastTimers, toastCount, timers, rejected, events,
                   validated, authCalls, settled>>
    /\ UNCHANGED <<call, boot, debounced, view>>

\* FormData of the forms on the paths to and beside a success.
FlowLoginInputs ==
    LoginPathInputs

FlowRegisterInputs ==
    {[name |-> NameJo, email |-> EmailOk, password |-> pw,
      confirmPassword |-> pw] : pw \in {PwAbcdefg1, PwShort}}
      \cup {[name |-> NameJo, email |-> TestNetworkCom,
             password |-> PwAbcdefg1, confirmPassword |-> PwAbcdefg1]}

\* A page on which the given variant has been constructed.
LoadedPage(variant) ==
    [pc |-> "done", variant |-> variant, page |-> CriticalElements,
     readyState |-> "complete",
     listeners |-> {"registerBtn", "loginBtn", "loginForm", "registerForm"},
     fallbackPanels |-> 0, readyToast |-> "fired", failed |-> FALSE]

FlowInit ==
    /\ FreshPage
    /\ boot \in {LoadedPage(variant) : variant \in AllVariants}

\* The forms and social buttons of the fixed variant and the continuations
\* of their handlers.
FixedFlowNext ==
    \/ \E credentials \in FlowLoginInputs : SubmitLogin(credentials)
    \/ \E userData \in FlowRegisterInputs : SubmitRegister(userData)
    \/ \E provider \in Providers : SocialClick(provider)
    \/ \E p \in pending : AuthSettle(p)
    \/ \E p \in pending : SocialSettle(p)
    \/ \E p \in pending : DelayDone(p)
    \/ \E t \in timers : CooldownFire(t)

\* The forms of the minimal variant and the continuations of their
\* handlers.
MinimalFlowNext ==
    \/ \E credentials \in FlowLoginInputs : MinSubmitLogin(credentials)
    \/ \E userData \in FlowRegisterInputs : MinSubmitRegister(userData)
    \/ \E p \in pending : MinLoginResume(p)
    \/ \E p \in pending : MinRegisterResume(p)
    \/ \E t \in timers : LogFire(t)

\* The forms and social buttons of the 2025 variant and the continuations
\* of their handlers; handleSocialAuth is the fixed variant's up to the
\* delay.
Flow2025Next ==
    \/ \E credentials \in FlowLoginInputs : SubmitLogin2025(credentials)
    \/ \E userData \in FlowRegisterInputs : SubmitRegister2025(userData)
    \/ \E provider \in Providers : SocialClick(provider)
    \/ \E p \in pending : AuthSettle2025(p)
    \/ \E p \in pending : SocialSettle(p)
    \/ \E p \in pending : DelayDone2025(p)

FlowNext ==
    \/ boot.variant = "fixed" /\ FixedFlowNext
    \/ boot.variant = "minimal" /\ MinimalFlowNext
    \/ boot.variant = "2025" /\ Flow2025Next

FlowSpec ==
    FlowInit /\ [][FlowNext]_vars

(***************************************************************************)
(* Both forms of the fixed variant under a running event loop, with the    *)
(* window's beforeunload listener.                                         *)
(***************************************************************************)
\* handleBeforeUnload() -> cleanup(): the performance marks are cleared.
\* Nothing of a handler in flight is touched; the page stays (the user
\* cancels the unload, or the event was dispatched by a script).
HandleBeforeUnload ==
    /\ call.fn # "cleanup"
    /\ call' = [fn |-> "cleanup", performanceMarks |-> {}]
    /\ UNCHANGED <<ctl, boot, redirected, debounced, view>>

SubmitNext ==
    \/ \E credentials \in FlowLoginInputs : SubmitLogin(credentials)
    \/ \E userData \in FlowRegisterInputs : SubmitRegister(userData)
    \/ \E p \in pending : AuthSettle(p)
    \/ \E p \in pending : DelayDone(p)
    \/ \E t \in timers : CooldownFire(t)
    \/ \E t \in timers : RevertFire(t)
    \/ HandleBeforeUnload

\* The event loop runs every callback that is due.
SubmitFairSpec ==
    /\ Init
    /\ [][SubmitNext]_vars
    /\ WF_vars(\E p \in pending : AuthSettle(p))
    /\ WF_vars(\E p \in pending : DelayDone(p))
    /\ WF_vars(\E t \in timers : CooldownFire(t))
    /\ WF_vars(\E t \in timers : RevertFire(t))

(***************************************************************************)
(* Debounced real-time validation (fixed variant).  Time advances in       *)
(* steps of TickMs; a timer fires when its delay has elapsed, before time  *)
(* advances further.                                                       *)
(***************************************************************************)
\* Number of input events explored.
MaxInputEvents ==
    3

\* The wait passed to debounce.
DebounceWait ==
    300

\* The granularity of time in the model, in ms: a third of the wait, so
\* that input events can be 100 or 200 ms apart (one burst) or 300 ms and
\* more apart (separate bursts).
TickMs ==
    DebounceWait \div 3

\* What the user has in the field after an input event.
TypedValues ==
    {EmailOk, EmailNoDot, PwShort}

InputEventCount ==
    debounced.nextTimerId - 1

\* The input element with the given id.
InputById(id) ==
    CHOOSE input \in RequiredInputs : input.id = id

\* clearTimeout(id): the timer with that id, if still pending, is removed.
ClearTimeout(tm, id) ==
    {t \in tm : t.id # id}

\* A debounced function that does not clear the pending timer.
ExecutedFunctionNoClear(d, f) ==
    [d EXCEPT !.timers = @ \cup {[id |-> d.nextTimerId, field |-> f,
                                  ms |-> DebounceWait]},
              !.timeout[f] = d.nextTimerId,
              !.nextTimerId = @ + 1]

\* executedFunction(...args) returned by debounce(func, wait), for the
\* closure of field f: clearTimeout(timeout); timeout = setTimeout(later,
\* wait).
ExecutedFunction(d, f) ==
    [d EXCEPT !.timers = ClearTimeout(@, d.timeout[f])
                           \cup {[id |-> d.nextTimerId, field |-> f,
                                  ms |-> DebounceWait]},
              !.timeout[f] = d.nextTimerId,
              !.nextTimerId = @ + 1]

\* An input event on the field: its debounced listener runs.  A burst
\* starts when no timer of the field is pending.
InputEvent(f, value) ==
    /\ InputEventCount < MaxInputEvents
    /\ LET starts == ~\E t \in debounced.timers : t.field = f
           d == ExecutedFunction(debounced, f)
       IN  debounced' =
             [d EXCEPT !.field[f].value = value,
                       !.field[f].sinceInput = 0,
                       !.field[f].bursts = IF starts THEN @ + 1 ELSE @]
    /\ UNCHANGED <<ctl, call, boot, redirected, view>>

\* later(): the timer of a debounced listener fires; clearTimeout(timeout)
\* on the timer that is running, then func(): validateInput(input).
Later(t) ==
    /\ t \in debounced.timers
    /\ t.ms = 0
    /\ LET f == t.field
           v == ValidateInput("fixed", InputById(f),
                              debounced.field[f].value, errorSlot)
       IN  /\ debounced' =
                 [debounced EXCEPT
                    !.timers = ClearTimeout(@ \ {t}, debounced.timeout[f]),
                    !.field[f].ariaInvalid =
                        IF v.ariaInvalid THEN "true" ELSE "false",
                    !.field[f].validations = @ + 1]
           /\ errorSlot' = v.slots
    /\ UNCHANGED <<registrationInProgress, button, status, modal, toasts,
                   toastTimers, toastCount, pending, timers, rejected,
                   events, validated, authCalls, settled, call, boot,
                   redirected, view>>

\* TickMs of time pass while timers are pending and none is due.
Tick ==
    /\ debounced.timers # {}
    /\ \A t \in debounced.timers : t.ms > 0
    /\ debounced' =
         [debounced EXCEPT
            !.timers = {[t EXCEPT !.ms = @ - TickMs] : t \in @},
            !.field = [f \in DebouncedFields |->
                         IF \E t \in debounced.timers : t.field = f
                         THEN [@[f] EXCEPT !.sinceInput = @ + TickMs]
                         ELSE @[f]]]
    /\ UNCHANGED <<ctl, call, boot, redirected, view>>

DebounceNext ==
    \/ \E f \in DebouncedFields, value \in TypedValues : InputEvent(f, value)
    \/ \E t \in debounced.timers : Later(t)
    \/ Tick

\* Time passes and due timers fire.
DebounceSpec ==
    /\ Init
    /\ [][DebounceNext]_vars
    /\ WF_vars(\E t \in debounced.timers : Later(t))
    /\ WF_vars(Tick)

(***************************************************************************)
(* The login form's inputs (fixed variant): typing, the password toggle,   *)
(* real-time validation and submission of what the inputs hold.            *)
(***************************************************************************)
\* Number of clicks on a password toggle explored.
MaxClicks ==
    3

\* What the user may put into each input.
FieldValues ==
    [loginEmail |-> {EmailOk},
     loginPassword |-> {PwSecret, PwShort, PwAbcdefg1}]

\* A toggle that only reveals the password.
TogglePasswordVisibilityRevealOnly(input, toggle) ==
    [input |-> [input EXCEPT !.type = "text"],
     toggle |-> [toggle EXCEPT
                    !.icon = IF @ = "fa-eye" THEN "fa-eye-slash" ELSE @,
                    !.ariaLabel = "Hide password"]]

\* togglePasswordVisibility(e): the input and the toggle after the call.
\* classList.replace(a, b) changes the icon only when it carries class a.
TogglePasswordVisibility(input, toggle) ==
    IF input.type = "password"
    THEN [input |-> [input EXCEPT !.type = "text"],
          toggle |-> [toggle EXCEPT
                         !.icon = IF @ = "fa-eye" THEN "fa-eye-slash" ELSE @,
                         !.ariaLabel = "Hide password"]]
    ELSE [input |-> [input EXCEPT !.type = "password"],
          toggle |-> [toggle EXCEPT
                         !.icon = IF @ = "fa-eye-slash" THEN "fa-eye" ELSE @,
                         !.ariaLabel = "Show password"]]

\* A click on the toggle of a password input.
ClickPasswordToggle(f) ==
    /\ toggles[f].clicks < MaxClicks
    /\ LET r == TogglePasswordVisibility(inputs[f], toggles[f])
       IN  /\ inputs' = [inputs EXCEPT ![f] = r.input]
           /\ toggles' = [toggles EXCEPT
                             ![f] = [r.toggle EXCEPT !.clicks = @ + 1]]
    /\ UNCHANGED <<ctl, call, boot, redirected, debounced, container>>

\* The user edits an input.
SetValue(f, value) ==
    /\ inputs[f].value # value
    /\ inputs' = [inputs EXCEPT ![f].value = value]
    /\ UNCHANGED <<ctl, call, boot, redirected, debounced, toggles,
                   container>>

\* The blur listener of an input, or its debounced input listener when it
\* is due, runs validateInput(input) on the input as it is now.
ValidateField(f) ==
    LET input == [InputById(f) EXCEPT !.type = inputs[f].type]
        v == ValidateInput("fixed", input, inputs[f].value, errorSlot)
    IN  /\ inputs' = [inputs EXCEPT
                         ![f].ariaInvalid =
                             IF v.ariaInvalid THEN "true" ELSE "false"]
        /\ errorSlot' = v.slots
        /\ call' = [fn |-> "validateInput", variant |-> "fixed",
                    input |-> input, value |-> inputs[f].value,
                    ret |-> v.isValid, message |-> v.message]
        /\ UNCHANGED <<registrationInProgress, button, status, modal, toasts,
                       toastTimers, toastCount, pending, timers, rejected,
                       events, validated, authCalls, settled, boot,
                       redirected, debounced, toggles, container>>

\* A submit that is ignored while an input of the form is marked
\* aria-invalid = true.
SubmitLoginFormUnlessInvalid ==
    IF \E f \in FieldIds : inputs[f].ariaInvalid = "true"
    THEN /\ EventCount < MaxEvents
         /\ events' = [events EXCEPT !["loginForm"] = @ + 1]
         /\ UNCHANGED <<registrationInProgress, button, status, errorSlot,
                        modal, toasts, toastTimers, toastCount, pending,
                        timers, rejected, validated, authCalls, settled>>
         /\ UNCHANGED <<call, boot, redirected, debounced, view>>
    ELSE SubmitLogin([email |-> inputs["loginEmail"].value,
                      password |-> inputs["loginPassword"].value])

\* A submit event on the login form: FormData reads the inputs.
SubmitLoginForm ==
    SubmitLogin([email |-> inputs["loginEmail"].value,
                 password |-> inputs["loginPassword"].value])

\* Typing, the toggle and real-time validation.
FieldNext ==
    \/ \E f \in FieldIds : \E value \in FieldValues[f] : SetValue(f, value)
    \/ \E f \in FieldIds : ValidateField(f)
    \/ \E f \in PasswordFieldIds : ClickPasswordToggle(f)

FieldSpec ==
    Init /\ [][FieldNext]_vars

\* What the user may put into each input before submitting.
LoginFormValues ==
    [loginEmail |-> {EmailOk},
     loginPassword |-> {PwSecret, PwAbcdefg1}]

\* Typing, real-time validation and submission of the login form.
LoginFormNext ==
    \/ \E f \in FieldIds : \E value \in LoginFormValues[f] :
          SetValue(f, value)
    \/ \E f \in FieldIds : ValidateField(f)
    \/ SubmitLoginForm
    \/ \E p \in pending : AuthSettle(p)
    \/ \E p \in pending : DelayDone(p)

LoginFormSpec ==
    Init /\ [][LoginFormNext]_vars

(***************************************************************************)
(* Password confirmation (fixed variant): the input listener of the        *)
(* confirmation field and the submit-time validator, called on what the    *)
(* two password fields hold.                                               *)
(***************************************************************************)
\* What the password field and the confirmation field may hold.
MatchPasswords ==
    {EmptyStr, PwShort, PwAbcdefg1}

\* User data of a registration form with those two fields.
MatchRegisterInputs ==
    [name : {EmptyStr, NameJo}, email : {EmailOk, EmailNoDot},
     password : MatchPasswords, confirmPassword : MatchPasswords]

\* A validatePasswordMatch without the test for an empty confirmation.
ValidatePasswordMatchStrict(password, confirmPassword, slots) ==
    IF password # confirmPassword
    THEN ShowFieldError(slots, "confirm-password-error", ErrMismatch)
    ELSE ClearFieldError(slots, "confirm-password-error")

\* validatePasswordMatch(): the error slots after the call, for the values
\* of registerPassword and confirmPassword.
ValidatePasswordMatch(password, confirmPassword, slots) ==
    IF confirmPassword # << >> /\ password # confirmPassword
    THEN ShowFieldError(slots, "confirm-password-error", ErrMismatch)
    ELSE ClearFieldError(slots, "confirm-password-error")

\* An input event on the confirmation field: validatePasswordMatch() runs.
CallValidatePasswordMatch(password, confirmPassword) ==
    /\ LoadedVariant("fixed")
    /\ errorSlot' = ValidatePasswordMatch(password, confirmPassword,
                                          errorSlot)
    /\ call' = [fn |-> "validatePasswordMatch", variant |-> "fixed",
                userData |-> [password |-> password,
                              confirmPassword |-> confirmPassword]]
    /\ UNCHANGED <<registrationInProgress, button, status, modal, toasts,
                   toastTimers, toastCount, pending, timers, rejected,
                   events, validated, authCalls, settled, boot,
                   redirected, debounced, view>>

MatchNext ==
    \/ \E password \in MatchPasswords, confirmPassword \in MatchPasswords :
          CallValidatePasswordMatch(password, confirmPassword)
    \/ \E userData \in MatchRegisterInputs :
          CallValidateRegisterForm("fixed", userData)

MatchSpec ==
    Init /\ [][MatchNext]_vars

(***************************************************************************)
(* The panel buttons (fixed and minimal variants), beside the submit       *)
(* handlers.                                                               *)
(***************************************************************************)
\* Number of clicks on the panel buttons explored.
MaxPanelClicks ==
    2

\* A page on which the given variant has been constructed, with or without
\* document.startViewTransition.
PanelPage(variant, api) ==
    [pc |-> "done", variant |-> variant, page |-> CriticalElements,
     readyState |-> "complete",
     listeners |-> {"registerBtn", "loginBtn", "loginForm", "registerForm"},
     fallbackPanels |-> 0, readyToast |-> "fired", failed |-> FALSE,
     startViewTransition |-> api]

\* FormData of the registration form submitted beside the clicks.
PanelRegisterInputs ==
    {[name |-> NameJo, email |-> EmailOk, password |-> PwAbcdefg1,
      confirmPassword |-> PwAbcdefg1]}

\* The part of a panel button's handler that both variants share: the
\* click is counted and the timer that focuses the panel's first input
\* after 600 ms is set.
PanelClick(c, btn, firstInput) ==
    [c EXCEPT !.clicks = @ + 1,
              !.lastClick = btn,
              !.focusTimers = @ \cup {[id |-> c.clicks + 1,
                                        target |-> firstInput, ms |-> 600]}]

\* A handler that flips the class with classList.toggle.
HandleToggleToLoginFlips ==
    /\ boot.variant = "fixed"
    /\ "container" \in boot.page
    /\ container.clicks < MaxPanelClicks
    /\ LET c == PanelClick(container, "loginBtn", "loginEmail")
       IN  container' =
             [c EXCEPT !.active = ~@, !.announcements = @ + 1]
    /\ UNCHANGED <<ctl, call, boot, redirected, debounced, inputs, toggles>>

\* handleToggleToRegister(e), fixed variant.  animateTransition only starts
\* a gsap animation of the panels.
HandleToggleToRegister ==
    /\ boot.variant = "fixed"
    /\ "container" \in boot.page
    /\ container.clicks < MaxPanelClicks
    /\ LET c == PanelClick(container, "registerBtn", "registerName")
       IN  container' =
             IF boot.startViewTransition
             THEN [c EXCEPT !.transitions = Append(@, "add"),
                            !.announcements = @ + 1]
             ELSE [c EXCEPT !.active = TRUE, !.announcements = @ + 1]
    /\ UNCHANGED <<ctl, call, boot, redirected, debounced, inputs, toggles>>

\* handleToggleToLogin(e), fixed variant.
HandleToggleToLogin ==
    /\ boot.variant = "fixed"
    /\ "container" \in boot.page
    /\ container.clicks < MaxPanelClicks
    /\ LET c == PanelClick(container, "loginBtn", "loginEmail")
       IN  container' =
             IF boot.startViewTransition
             THEN [c EXCEPT !.transitions = Append(@, "remove"),
                            !.announcements = @ + 1]
             ELSE [c EXCEPT !.active = FALSE, !.announcements = @ + 1]
    /\ UNCHANGED <<ctl, call, boot, redirected, debounced, inputs, toggles>>

\* The click listener of registerBtn, minimal variant.
MinToggleToRegister ==
    /\ boot.variant = "minimal"
    /\ container.clicks < MaxPanelClicks
    /\ container' = [PanelClick(container, "registerBtn", "registerName")
                       EXCEPT !.active = TRUE]
    /\ UNCHANGED <<ctl, call, boot, redirected, debounced, inputs, toggles>>

\* The click listener of loginBtn, minimal variant.
MinToggleToLogin ==
    /\ boot.variant = "minimal"
    /\ container.clicks < MaxPanelClicks
    /\ container' = [PanelClick(container, "loginBtn", "loginEmail")
                       EXCEPT !.active = FALSE]
    /\ UNCHANGED <<ctl, call, boot, redirected, debounced, inputs, toggles>>

\* The browser runs the update callback of the oldest view transition.
ViewTransitionCallback ==
    /\ container.transitions # << >>
    /\ container' = [container EXCEPT
                        !.active = (Head(container.transitions) = "add"),
                        !.transitions = Tail(@)]
    /\ UNCHANGED <<ctl, call, boot, redirected, debounced, inputs, toggles>>

\* The 1000 ms timer of announceToScreenReader removes its announcement.
AnnouncementRemove ==
    /\ container.announcements > 0
    /\ container' = [container EXCEPT !.announcements = @ - 1]
    /\ UNCHANGED <<ctl, call, boot, redirected, debounced, inputs, toggles>>

\* The 600 ms timer of a panel button's handler focuses the first input of
\* the panel; timers of the same delay fire in the order they were set.
FocusFire(t) ==
    /\ t \in container.focusTimers
    /\ \A u \in container.focusTimers : t.id <= u.id
    /\ container' = [container EXCEPT !.focus = t.target,
                                      !.focusTimers = @ \ {t}]
    /\ UNCHANGED <<ctl, call, boot, redirected, debounced, inputs, toggles>>

PanelInit ==
    /\ FreshPage
    /\ boot \in {PanelPage("fixed", api) : api \in BOOLEAN}
                  \cup {PanelPage("minimal", FALSE)}

\* The panel buttons and the registration form of either variant, with the
\* continuations of its handler.
PanelNext ==
    \/ HandleToggleToRegister
    \/ HandleToggleToLogin
    \/ ViewTransitionCallback
    \/ AnnouncementRemove
    \/ MinToggleToRegister
    \/ MinToggleToLogin
    \/ \E t \in container.focusTimers : FocusFire(t)
    \/ /\ boot.variant = "fixed"
       /\ \E userData \in PanelRegisterInputs : SubmitRegister(userData)
    \/ /\ boot.variant = "fixed"
       /\ \E p \in pending : AuthSettle(p)
    \/ /\ boot.variant = "fixed"
       /\ \E p \in pending : DelayDone(p)
    \/ /\ boot.variant = "fixed"
       /\ \E t \in timers : CooldownFire(t)
    \/ /\ boot.variant = "minimal"
       /\ \E userData \in PanelRegisterInputs : MinSubmitRegister(userData)
    \/ /\ boot.variant = "minimal"
       /\ \E p \in pending : MinRegisterResume(p)
    \/ /\ boot.variant = "minimal"
       /\ \E t \in timers : LogFire(t)

PanelSpec ==
    PanelInit /\ [][PanelNext]_vars

(***************************************************************************)
(* Properties.                                                             *)
(***************************************************************************)
\* Registration mock calls in flight.
RegisterInFlight ==
    {p \in pending : p.handler = "register" /\ p.pc = "authenticateUser"}

\* The step dispatches a submit event on the given form.
SubmitStep(target) ==
    events'[target] = events[target] + 1

\* C1: a registration submit that arrives while registrationInProgress is
\* true runs no validation, writes no error slot, status region or toast and
\* starts no mock call (it changes nothing of the page or the controller);
\* and at most one registration mock call is in flight at any time.
C1_GuardedSubmitIgnored ==
    /\ [](Cardinality(RegisterInFlight) <= 1)
    /\ [][(registrationInProgress /\ SubmitStep("registerForm"))
            => /\ validated' = validated
               /\ authCalls' = authCalls
               /\ pending' = pending
               /\ UNCHANGED dom
               /\ UNCHANGED <<registrationInProgress, timers, rejected,
                              settled>>]_vars

\* A second registration submit was dispatched, and dropped, while the first
\* one's mock call is in flight.
C1_Witness ==
    /\ RegisterInFlight # {}
    /\ events["registerForm"] = 2
    /\ Cardinality({v \in validated : v.form = "register"}) = 1

\* The validator run that the step adds to the observations, if any.
NewValidations ==
    validated' \ validated

\* C2: a login or registration submit whose validation fails starts no mock
\* call and leaves the submit buttons and the status regions as they were;
\* every mock call belongs to a submit whose validator returned true.
C2_InvalidSubmitStartsNothing ==
    /\ [](\A c \in authCalls :
            \E v \in validated : v.id = c.id /\ v.form = c.type /\ v.isValid)
    /\ [][(\E v \in NewValidations : ~v.isValid)
            => /\ authCalls' = authCalls
               /\ pending' = pending
               /\ button' = button
               /\ status' = status
               /\ modal' = modal
               /\ UNCHANGED <<toasts, toastTimers, toastCount>>]_vars

\* Both forms have had a submit rejected by validation.
C2_Witness ==
    /\ \E v \in validated : v.form = "login" /\ ~v.isValid
    /\ \E v \in validated : v.form = "register" /\ ~v.isValid

\* Mock calls of a form that have not settled yet.
InFlight(form) ==
    {p \in pending : p.handler = form /\ p.pc = "authenticateUser"}

\* C3: once the mock call of a login or registration submission has
\* resolved with success (and no other submission of that form is in
\* flight), the submit button has the loading class removed and
\* disabled = false.
C3_ReenabledAfterSuccess ==
    \A s \in settled :
        (~s.result.threw /\ InFlight(s.type) = {})
          => /\ ~button[s.type].loading
             /\ ~button[s.type].disabled

\* The mock calls that settle in the step.
NewSettled ==
    settled' \ settled

Sentinels ==
    {TestErrorCom, TestNetworkCom}

\* The raw message of the failure the mock call raises for a sentinel
\* email, and the toast text of its class.
RawMessage(email) ==
    IF email = TestErrorCom THEN MsgInvalidCredentials ELSE MsgNetworkFailed

ClassToast(email) ==
    IF email = TestErrorCom THEN ToastCredentials ELSE ToastNetwork

\* The step shows exactly one more toast, of severity error, with the given
\* text.
OneErrorToast(text) ==
    /\ toastCount' = toastCount + 1
    /\ Len(toasts') = Len(toasts) + 1
    /\ SubSeq(toasts', 1, Len(toasts)) = toasts
    /\ toasts'[Len(toasts')].className = <<"toast", "error">>
    /\ toasts'[Len(toasts')].icon = "fas fa-exclamation-circle"
    /\ toasts'[Len(toasts')].message = text

\* C4: when the login mock call settles for a sentinel email, the login
\* button ends not loading, enabled and with aria-busy 'false', exactly one
\* error toast with the class-specific text is shown, the login status reads
\* 'Login failed: ' followed by the raw message, and the success modal is
\* left as it was.
C4_LoginFailure ==
    [][\A s \in NewSettled :
          (s.type = "login" /\ s.credentials.email \in Sentinels)
            => /\ ~button'["login"].loading
               /\ ~button'["login"].disabled
               /\ button'["login"].ariaBusy = "false"
               /\ OneErrorToast(ClassToast(s.credentials.email))
               /\ status'["login-status"]
                    = StatusLoginFailedPrefix \o RawMessage(s.credentials.email)
               /\ modal' = modal]_vars

\* Login mock calls have failed for both sentinel emails.
C4_Witness ==
    \A e \in Sentinels :
        \E s \in settled :
            s.type = "login" /\ s.credentials.email = e /\ s.result.threw

\* C5: when the registration mock call settles for a sentinel email, the
\* register button ends not loading and enabled, exactly one error toast is
\* shown, and the register status reads 'Registration failed: ' followed by
\* the error message.
C5_RegisterFailure ==
    [][\A s \in NewSettled :
          (s.type = "register" /\ s.credentials.email \in Sentinels)
            => /\ ~button'["register"].loading
               /\ ~button'["register"].disabled
               /\ OneErrorToast(ClassToast(s.credentials.email))
               /\ status'["register-status"]
                    = StatusRegisterFailedPrefix
                        \o RawMessage(s.credentials.email)]_vars

\* C6: the promise returned by handleLogin, handleRegister and
\* handleSocialAuth never rejects.
C6_NoHandlerRejects ==
    rejected = {}

\* The name the mock call reports: the submitted name, 'User' when the name
\* is absent or empty.
ReportedName(credentials) ==
    IF "name" \notin DOMAIN credentials THEN MsgDefaultUser
    ELSE IF credentials.name = EmptyStr THEN MsgDefaultUser
    ELSE credentials.name

\* C7: authenticateUser (fixed and 2025 variants) rejects with 'Invalid
\* credentials' iff the email is 'test@error.com', rejects with 'Network
\* connection failed' iff it is 'test@network.com', and otherwise resolves
\* with success, the submitted email, the submitted name or 'User', and the
\* token 'mock-jwt-token'; password, confirmPassword, type and the random
\* delay do not enter.
C7_OutcomeByEmail ==
    call.fn = "authenticateUser"
      => LET email == call.credentials.email
             r     == call.ret.result
         IN  /\ (r.threw /\ r.message = MsgInvalidCredentials)
                  <=> email = TestErrorCom
             /\ (r.threw /\ r.message = MsgNetworkFailed)
                  <=> email = TestNetworkCom
             /\ r.threw <=> email \in Sentinels
             /\ ~r.threw
                  => /\ r.success = TRUE
                     /\ r.user = [email |-> email,
                                  name  |-> ReportedName(call.credentials)]
                     /\ r.token = MsgMockToken

\* A register call of the 2025 variant with an empty name resolved with the
\* name 'User'.
C7_Witness ==
    /\ call.fn = "authenticateUser"
    /\ call.variant = "2025"
    /\ call.type = "register"
    /\ "name" \in DOMAIN call.credentials
    /\ call.credentials.name = EmptyStr
    /\ ~call.ret.result.threw
    /\ call.ret.result.user.name = MsgDefaultUser

\* C8: every validated login or registration submission of the minimal
\* variant ends in the outcome (success or failure) that the fixed variant's
\* authenticateUser gives for the same credentials.
C8_MinimalMatchesFixed ==
    \A s \in settled :
        s.result.threw
          = AuthenticateUser(s.credentials, s.type, 0).result.threw

\* Ids of the login mock calls started so far.
LoginCallIds ==
    {c.id : c \in {x \in authCalls : x.type = "login"}}

\* C9: while the most recently started login submission is still in
\* Submitting, the login button keeps the loading class and stays disabled:
\* no completion of an earlier login submission clears them.
C9_NoStaleReenable ==
    \A p \in InFlight("login") :
        (\A i \in LoginCallIds : i <= p.id)
          => /\ button["login"].loading
             /\ button["login"].disabled

\* C10: whenever registrationInProgress is true it is eventually false
\* again.
C10_GuardEventuallyCleared ==
    registrationInProgress ~> ~registrationInProgress

\* The guard has been cleared after a registration whose catch block threw.
C10_Witness ==
    /\ rejected # {}
    /\ ~registrationInProgress
    /\ timers = {}

(***************************************************************************)
(* Properties of the form validators.                                      *)
(***************************************************************************)
RegisterSlotIds ==
    {"name-error", "register-email-error", "register-password-error",
     "confirm-password-error"}

\* The password policy of a variant.
PasswordPolicy(variant, password) ==
    IF variant = "fixed" THEN ValidatePassword(password)
    ELSE IF variant = "2025" THEN ValidatePassword2025(password)
    ELSE ValidatePasswordMinimal(password)

\* The text each register slot must hold after validateRegisterForm, by the
\* check of that slot alone.
ExpectedRegisterSlot(variant, userData, slot) ==
    IF slot = "name-error"
    THEN IF Len(Trim(userData.name)) < 2 THEN ErrName ELSE EmptyStr
    ELSE IF slot = "register-email-error"
    THEN IF IsValidEmail(userData.email) THEN EmptyStr ELSE ErrEmail
    ELSE IF slot = "register-password-error"
    THEN IF PasswordPolicy(variant, userData.password).isValid
         THEN EmptyStr
         ELSE PasswordPolicy(variant, userData.password).message
    ELSE IF userData.password = userData.confirmPassword
         THEN EmptyStr
         ELSE ErrMismatch

\* The register slots that show a message.
ErrorsShown(slots) ==
    {s \in RegisterSlotIds : slots[s].textContent # EmptyStr}

\* C11: validateRegisterForm (all variants) is not short-circuited: after
\* every call each of the four register slots holds the message of its own
\* check when that check fails and is empty when it passes, whatever the
\* other three checks say and whatever the slots held before; and every
\* subset of the four errors is shown by some call.
C11_RegisterChecksIndependent ==
    /\ call.fn = "validateRegisterForm"
         => \A s \in RegisterSlotIds :
               errorSlot[s].textContent
                 = ExpectedRegisterSlot(call.variant, call.userData, s)
    /\ \A variant \in (IF call.fn = "none" THEN AllVariants
                                           ELSE {call.variant}) :
          {ErrorsShown(ValidateRegisterFormOf(variant, u, errorSlot).slots) :
              u \in ValidateRegisterInputs} = SUBSET RegisterSlotIds

\* A call has left all four register errors on the page at once.
C11_Witness ==
    /\ call.fn = "validateRegisterForm"
    /\ ErrorsShown(errorSlot) = RegisterSlotIds

\* C12: validateRegisterForm (fixed variant) returns true iff the trimmed
\* name has at least 2 characters, the email is valid, the password passes
\* validatePassword and password equals confirmPassword; 'Jo' passes the
\* name check and ' J ' fails it; a mismatch always gives false with
\* 'Passwords do not match' in confirm-password-error.
C12_RegisterVerdict ==
    (call.fn = "validateRegisterForm" /\ call.variant = "fixed")
      => LET u == call.userData
         IN  /\ call.ret = (/\ Len(Trim(u.name)) >= 2
                            /\ IsValidEmail(u.email)
                            /\ ValidatePassword(u.password).isValid
                            /\ u.password = u.confirmPassword)
             /\ u.name = NameJo
                  => errorSlot["name-error"].textContent = EmptyStr
             /\ u.name = NameSpJSp
                  => /\ ~call.ret
                     /\ errorSlot["name-error"].textContent = ErrName
             /\ u.password # u.confirmPassword
                  => /\ ~call.ret
                     /\ errorSlot["confirm-password-error"].textContent
                          = ErrMismatch

\* A strong password with a different confirmation was rejected for the
\* mismatch alone.
C12_Witness ==
    /\ call.fn = "validateRegisterForm"
    /\ call.variant = "fixed"
    /\ call.userData.name = NameJo
    /\ call.userData.password = PwAbcdefg1
    /\ call.userData.confirmPassword # PwAbcdefg1
    /\ ~call.ret
    /\ ErrorsShown(errorSlot) = {"confirm-password-error"}

\* C13 as stated: validateLoginForm (all variants) on an invalid email
\* returns false and sets email-error, and with a non-empty password the
\* text of password-error after the call equals its text before the call.
C13_PasswordSlotUntouched ==
    (call.fn = "validateLoginForm" /\ ~IsValidEmail(call.credentials.email))
      => /\ ~call.ret
         /\ errorSlot["email-error"].textContent = ErrEmail
         /\ call.credentials.password # EmptyStr
              => errorSlot["password-error"].textContent = call.before

\* C13 amended: validateLoginForm (all variants) on an invalid email
\* returns false and sets email-error, and with a non-empty password it
\* writes no message to password-error: the slot is empty after the call,
\* whatever it held before.
C13_PasswordSlotCleared ==
    (call.fn = "validateLoginForm" /\ ~IsValidEmail(call.credentials.email))
      => /\ ~call.ret
         /\ errorSlot["email-error"].textContent = ErrEmail
         /\ call.credentials.password # EmptyStr
              => errorSlot["password-error"].textContent = EmptyStr

\* An invalid email with a valid password was validated on a page whose
\* password-error slot still held the message of an earlier call.
C13_Witness ==
    /\ call.fn = "validateLoginForm"
    /\ ~IsValidEmail(call.credentials.email)
    /\ call.credentials.password # EmptyStr
    /\ call.before = ErrPasswordRequired
    /\ errorSlot["password-error"].textContent = EmptyStr

(***************************************************************************)
(* Properties of the password functions.                                   *)
(***************************************************************************)
\* C14: validatePassword (fixed variant) reports the first failure only, in
\* the order required, minimum length, complexity: an empty password gives
\* 'Password is required'; else fewer than 8 characters give the
\* minimum-length message; else a missing lowercase letter, uppercase
\* letter or digit gives the complexity message; else the password is valid.
\* 'short' gets the minimum-length message and 'Abcdefg1' is valid.
C14_FirstFailureOnly ==
    (call.fn = "validatePassword" /\ call.variant = "fixed")
      => LET p == call.password
             classes == /\ \E i \in 1..Len(p) : p[i] \in Lower
                        /\ \E i \in 1..Len(p) : p[i] \in Upper
                        /\ \E i \in 1..Len(p) : p[i] \in Digit
         IN  /\ Len(p) = 0
                  => call.ret = [isValid |-> FALSE,
                                 message |-> ErrPasswordRequired]
             /\ Len(p) \in 1..7
                  => call.ret = [isValid |-> FALSE,
                                 message |-> ErrPasswordMin]
             /\ (Len(p) >= 8 /\ ~classes)
                  => call.ret = [isValid |-> FALSE,
                                 message |-> ErrPasswordComplexity]
             /\ (Len(p) >= 8 /\ classes) => call.ret = [isValid |-> TRUE]
             /\ p = PwShort => call.ret.message = ErrPasswordMin
             /\ p = PwAbcdefg1 => call.ret.isValid

\* 'short', which fails both the length and the complexity test, was
\* reported for its length.
C14_Witness ==
    /\ call.fn = "validatePassword"
    /\ call.variant = "fixed"
    /\ call.password = PwShort
    /\ call.ret.message = ErrPasswordMin

\* C15: the minimal and the 2025 validatePassword return the same isValid
\* as the fixed validatePassword for every password, rejecting passwords of
\* 8 or more characters that lack a lowercase letter, an uppercase letter
\* or a digit.
C15_VariantsAgreeOnPolicy ==
    call.fn = "validatePassword"
      => call.ret.isValid = ValidatePassword(call.password).isValid

\* The checks of calculatePasswordStrength a password satisfies.
SatisfiedChecks(variant, p) ==
    {c \in {"len8", "len12", "lower", "upper", "digit", "symbol"} :
        \/ c = "len8" /\ Len(p) >= 8
        \/ c = "len12" /\ Len(p) >= 12
        \/ c = "lower" /\ \E i \in 1..Len(p) : p[i] \in Lower
        \/ c = "upper" /\ \E i \in 1..Len(p) : p[i] \in Upper
        \/ c = "digit" /\ \E i \in 1..Len(p) : p[i] \in Digit
        \/ c = "symbol" /\ \E i \in 1..Len(p) :
                               p[i] \notin Lower \cup Upper \cup Digit}
      \cup (IF variant = "2025" /\ ~TestRepeat(p) THEN {"norepeat"} ELSE {})
      \cup (IF variant = "2025" /\ ~TestSequential(p) THEN {"noseq"}
                                                        ELSE {})

\* The band whose inclusive range contains the score.
BandOf(score) ==
    IF score \in 0..2 THEN "weak"
    ELSE IF score \in 3..4 THEN "fair"
    ELSE IF score \in 5..6 THEN "good"
    ELSE IF score \in 7..8 THEN "strong"
    ELSE "none"

\* C16: calculatePasswordStrength (all variants): the score is the number
\* of satisfied checks, the band returned is the one whose inclusive range
\* (0-2 weak, 3-4 fair, 5-6 good, 7-8 strong) contains the score, and every
\* score lies in one of the four ranges, so the fallback to weak is unused.
C16_BandOfScore ==
    call.fn = "calculatePasswordStrength"
      => /\ call.score = Cardinality(SatisfiedChecks(call.variant,
                                                     call.password))
         /\ BandOf(call.score) # "none"
         /\ call.ret.level = BandOf(call.score)

\* The highest score has been computed and the top band returned.
C16_Witness ==
    /\ call.fn = "calculatePasswordStrength"
    /\ call.variant = "2025"
    /\ call.score = 8
    /\ call.ret.level = "strong"

BandRank(level) ==
    IF level = "weak" THEN 0
    ELSE IF level = "fair" THEN 1
    ELSE IF level = "good" THEN 2
    ELSE 3

\* The character classes of a character.
CharClass(c) ==
    IF c \in Lower THEN "lower"
    ELSE IF c \in Upper THEN "upper"
    ELSE IF c \in Digit THEN "digit"
    ELSE "symbol"

\* C17: calculatePasswordStrength is monotonic in every variant: when a
\* character of a class that does not occur in the password is typed after
\* it, the band of the longer password is not below the band of the
\* shorter one.
C17_Monotonic ==
    [][(/\ call.fn = "calculatePasswordStrength"
        /\ call'.fn = "calculatePasswordStrength"
        /\ call'.variant = call.variant
        /\ Len(call'.password) = Len(call.password) + 1
        /\ SubSeq(call'.password, 1, Len(call.password)) = call.password
        /\ \A i \in 1..Len(call.password) :
              CharClass(call.password[i])
                # CharClass(call'.password[Len(call'.password)]))
         => BandRank(call'.ret.level) >= BandRank(call.ret.level)]_vars

\* An uppercase letter typed after 'ab' completed a sequential run and the
\* band stayed fair.
C17_Witness ==
    /\ call.fn = "calculatePasswordStrength"
    /\ call.variant = "2025"
    /\ call.password = <<"a", "b", "C">>
    /\ call.typed = 3
    /\ call.ret.level = "fair"

(***************************************************************************)
(* Properties of isValidEmail.                                             *)
(***************************************************************************)
\* Positions of '@' in s.
AtSigns(s) ==
    {i \in 1..Len(s) : s[i] = "@"}

\* C18: isValidEmail(s) is true iff s has no whitespace, exactly one '@', a
\* non-empty part before it, and after it a part holding a '.' that is
\* neither the first nor the last character of that part.  'a@b.co' is
\* accepted; 'a@b', 'a b@c.com' and '' are rejected.
C18_EmailSyntax ==
    call.fn = "isValidEmail"
      => LET s == call.email
         IN  /\ call.ret
                  = (/\ \A i \in 1..Len(s) : s[i] \notin Whitespace
                     /\ Cardinality(AtSigns(s)) = 1
                     /\ \A at \in AtSigns(s) :
                           /\ at > 1
                           /\ \E j \in (at + 2)..(Len(s) - 1) : s[j] = ".")
             /\ s = EmailOk => call.ret
             /\ s \in {EmailNoDot, EmailSpace, EmptyStr} => ~call.ret

\* An address with a valid address inside it ('a b@c.com') was rejected.
C18_Witness ==
    /\ call.fn = "isValidEmail"
    /\ call.email = EmailSpace
    /\ ~call.ret

(***************************************************************************)
(* Properties of the login success path.                                   *)
(***************************************************************************)
\* Credentials of the success path: a valid email that is no sentinel and a
\* non-empty password.
SuccessCredentials(credentials) ==
    /\ credentials.email \in {EmailOk}
    /\ credentials.password # EmptyStr

\* The login mock calls started in the step.
NewLoginCalls ==
    {c \in authCalls' \ authCalls : c.type = "login"}

\* The login submission with the given id waits for its mock call, for
\* credentials of the success path.
AwaitingLogin(id) ==
    \E p \in pending :
        /\ p.id = id
        /\ p.handler = "login"
        /\ p.pc = "authenticateUser"
        /\ SuccessCredentials(p.credentials)

\* C19: a login submit with a valid non-sentinel email and a non-empty
\* password passes validation with both login error slots empty and puts
\* the button into loading while its mock call is pending; the call then
\* eventually resolves with success, and at that point the button has the
\* success background, the modal shows 'Welcome back to AlgoRhythm!' and
\* login-status reads 'Login successful', with no toast and no field error
\* added.
C19_LoginSuccessPath ==
    /\ [][\A c \in NewLoginCalls :
            SuccessCredentials(c.credentials)
              => /\ \E v \in NewValidations : v.id = c.id /\ v.isValid
                 /\ errorSlot'["email-error"].textContent = EmptyStr
                 /\ errorSlot'["password-error"].textContent = EmptyStr
                 /\ button'["login"].loading
                 /\ button'["login"].disabled
                 /\ AwaitingLogin(c.id)'
                 /\ \A s \in settled' : s.id # c.id
                 /\ UNCHANGED <<toasts, toastCount, modal>>]_vars
    /\ [][\A s \in NewSettled :
            (s.type = "login" /\ SuccessCredentials(s.credentials))
              => /\ AwaitingLogin(s.id)
                 /\ ~s.result.threw
                 /\ s.result.success
                 /\ button'["login"].background = "success"
                 /\ modal'.show
                 /\ modal'.message = ModalWelcomeBack
                 /\ status'["login-status"] = StatusLoginOk
                 /\ UNCHANGED <<toasts, toastCount, errorSlot>>]_vars
    /\ \A id \in 1..(MaxEvents + 1) :
          AwaitingLogin(id)
            ~> (\E s \in settled : s.id = id /\ ~s.result.threw)

\* A login with the password 'secret', which the registration policy
\* rejects, has succeeded.
C19_Witness ==
    /\ ~ValidatePassword(PwSecret).isValid
    /\ \E s \in settled :
          /\ s.type = "login"
          /\ s.credentials = [email |-> EmailOk, password |-> PwSecret]
          /\ ~s.result.threw
    /\ modal.message = ModalWelcomeBack
    /\ status["login-status"] = StatusLoginOk

(***************************************************************************)
(* Properties of the construction.                                         *)
(***************************************************************************)
\* C20: when a critical element (container, registerBtn, loginBtn,
\* loginForm, registerForm) is missing, initialization ends with no event
\* listener attached, one fallback panel appended, initialized false and no
\* 'ready' toast scheduled or shown; and initialized is true only when all
\* five elements were found and every setup step has completed.
C20_InitializationAborts ==
    /\ boot.page # CriticalElements
         => /\ boot.listeners = {}
            /\ ~boot.initialized
            /\ boot.readyToast = "none"
            /\ toastCount = 0
            /\ boot.pc = "done" => boot.fallbackPanels = 1
    /\ boot.initialized
         => /\ boot.page = CriticalElements
            /\ boot.fault = "none"
            /\ boot.pc = "done"
            /\ boot.listeners
                 = {"registerBtn", "loginBtn", "loginForm", "registerForm",
                    "window", "document"}
            /\ boot.fallbackPanels = 0

\* Initialization has been aborted on a page that lacks only its container,
\* after waiting for DOMContentLoaded.
C20_Witness ==
    /\ boot.pc = "done"
    /\ boot.page = CriticalElements \ {"container"}
    /\ boot.readyState = "loading"
    /\ boot.fallbackPanels = 1
    /\ ~boot.initialized

(***************************************************************************)
(* Properties of the construction in the minimal and 2025 variants.        *)
(***************************************************************************)
\* C21: in the minimal and the 2025 variant, when a critical element
\* (container, registerBtn, loginBtn, loginForm, registerForm) is missing,
\* initialization ends with the fallback error panel shown and with no
\* event listener attached.
C21_NoPartialInitialization ==
    (boot.pc = "done" /\ boot.page # CriticalElements)
      => /\ boot.fallbackPanels = 1
         /\ boot.listeners = {}

(***************************************************************************)
(* Properties of the toasts.                                               *)
(***************************************************************************)
ToastIds ==
    1..(MaxToasts + 1)

\* The toast is a child of the container.
InContainer(ts, id) ==
    \E i \in DOMAIN ts : ts[i].id = id

ToastById(ts, id) ==
    ts[CHOOSE i \in DOMAIN ts : ts[i].id = id]

\* The pending callbacks of one toast.
TimersOf(tt, id) ==
    {t \in tt : t.id = id}

\* The callback of that kind of the toast runs in this step.
Fires(id, kind) ==
    /\ \E t \in toastTimers : t.id = id /\ t.kind = kind
    /\ ~\E t \in toastTimers' : t.id = id /\ t.kind = kind

\* C22: every toast is appended to the container without 'show', gets
\* 'show' in its animation-frame callback, loses it in the callback
\* scheduled 4000 ms after creation, and is removed by the callback
\* scheduled 300 ms after that; a removed toast never comes back and has no
\* callback left; a toast changes only in its own callbacks; and every
\* toast is eventually removed.
C22_ToastLifecycle ==
    /\ [][\A id \in ToastIds :
            /\ (toastCount' = id /\ toastCount = id - 1)
                 => /\ toasts' = Append(toasts, ToastById(toasts', id))
                    /\ ~ToastById(toasts', id).show
                    /\ TimersOf(toastTimers', id)
                         = {[id |-> id, kind |-> "frame", ms |-> 0],
                            [id |-> id, kind |-> "hide", ms |-> 4000]}
            /\ (Fires(id, "frame") /\ InContainer(toasts, id))
                 => /\ InContainer(toasts', id)
                    /\ ToastById(toasts', id).show
            /\ Fires(id, "hide")
                 => /\ InContainer(toasts', id)
                    /\ ~ToastById(toasts', id).show
                    /\ [id |-> id, kind |-> "remove", ms |-> 300]
                         \in toastTimers'
            /\ Fires(id, "remove")
                 => /\ InContainer(toasts, id)
                    /\ ~InContainer(toasts', id)
            /\ (id <= toastCount /\ ~InContainer(toasts, id))
                 => /\ ~InContainer(toasts', id)
                    /\ TimersOf(toastTimers', id) \subseteq
                         {[id |-> id, kind |-> "frame", ms |-> 0]}
            /\ (id <= toastCount
                  /\ TimersOf(toastTimers', id) = TimersOf(toastTimers, id))
                 => /\ InContainer(toasts', id) = InContainer(toasts, id)
                    /\ InContainer(toasts, id)
                         => ToastById(toasts', id) = ToastById(toasts, id)
         ]_vars
    /\ \A id \in ToastIds :
         InContainer(toasts, id) ~> ~InContainer(toasts, id)

\* Two toasts have overlapped: the second has been removed while the first
\* is still shown in the container.
C22_Witness ==
    /\ toastCount = 2
    /\ Len(toasts) = 1
    /\ toasts[1].id = 1
    /\ toasts[1].show
    /\ TimersOf(toastTimers, 2) = {}

(***************************************************************************)
(* Properties of the real-time validation.                                 *)
(***************************************************************************)
\* The error slot the submit-time validators use for the field.
FieldSlot(input) ==
    CASE input.id = "loginEmail"       -> "email-error"
      [] input.id = "loginPassword"    -> "password-error"
      [] input.id = "registerName"     -> "name-error"
      [] input.id = "registerEmail"    -> "register-email-error"
      [] input.id = "registerPassword" -> "register-password-error"
      [] input.id = "confirmPassword"  -> "confirm-password-error"

\* C23: after validateInput(input), in each variant, the field's named
\* error slot holds the failure message when the verdict is false and is
\* empty when the verdict is true.
C23_SlotReflectsVerdict ==
    call.fn = "validateInput"
      => errorSlot[FieldSlot(call.input)].textContent
           = IF call.ret THEN EmptyStr ELSE call.message

(***************************************************************************)
(* Properties of handleAuthError.                                          *)
(***************************************************************************)
MentionsNetwork(message) ==
    Includes(message, SubNetworkLower) \/ Includes(message, SubNetworkUpper)

MentionsCredentials(message) ==
    Includes(message, SubCredentials) \/ Includes(message, SubInvalid)

\* C24: after handleAuthError(error, button) exactly one toast has been
\* added, of severity error, whose text is the network text when the
\* message contains 'network' or 'Network' (also when it matches the
\* credentials group too), else the invalid-credentials text when it
\* contains 'credentials' or 'Invalid', else the generic text; and the
\* button is no longer loading or disabled.
C24_Classification ==
    call.fn = "handleAuthError"
      => /\ Len(toasts) = call.toastsBefore + 1
         /\ toasts[Len(toasts)].className = <<"toast", "error">>
         /\ toasts[Len(toasts)].message
              = IF MentionsNetwork(call.message) THEN ToastNetwork
                ELSE IF MentionsCredentials(call.message)
                THEN ToastCredentials
                ELSE ToastGeneric
         /\ ~button[call.form].loading
         /\ ~button[call.form].disabled
         /\ button[call.form].ariaBusy = "false"

\* A message matching both groups has been classified as network, on a
\* button that was loading.
C24_Witness ==
    /\ call.fn = "handleAuthError"
    /\ call.message = SubInvalid \o <<" ">> \o SubNetworkLower
    /\ call.wasLoading
    /\ toasts[Len(toasts)].message = ToastNetwork

(***************************************************************************)
(* Properties of the post-success step.                                    *)
(***************************************************************************)
\* The submission passed validation and its mock call resolved.
SucceededSubmission(id, handler) ==
    /\ [id |-> id, form |-> handler, isValid |-> TRUE] \in validated
    /\ \E s \in settled : s.id = id /\ ~s.result.threw
    /\ ~\E s \in settled : s.id = id /\ s.result.threw

\* C25: redirectToApp is invoked only in the 2025 variant, only by a
\* handler whose post-success delay elapses in that step, for a form only
\* when the submission passed validation and its mock call resolved with
\* success, and at most once per submission; in the fixed and minimal
\* variants it is never invoked.
C25_RedirectOnlyAfterSuccess ==
    /\ [][redirected' # redirected
            => /\ boot.variant = "2025"
               /\ \E p \in pending :
                    /\ p.pc = "delay"
                    /\ p \notin pending'
                    /\ redirected'
                         = Append(redirected,
                                  [id |-> p.id, handler |-> p.handler,
                                   href |-> "/dashboard"])
                    /\ p.handler \in Forms
                         => SucceededSubmission(p.id, p.handler)
                    /\ \A i \in DOMAIN redirected : redirected[i].id # p.id
         ]_vars
    /\ [](boot.variant \in {"fixed", "minimal"} => redirected = << >>)
    /\ [](\A i \in DOMAIN redirected :
            /\ ~\E v \in validated : v.id = redirected[i].id /\ ~v.isValid
            /\ ~\E s \in settled : s.id = redirected[i].id /\ s.result.threw)

\* In the 2025 variant a login has been redirected after its delay, beside
\* a submission that failed.
C25_Witness ==
    /\ boot.variant = "2025"
    /\ Len(redirected) = 1
    /\ redirected[1].handler = "login"
    /\ SucceededSubmission(redirected[1].id, "login")
    /\ \/ \E v \in validated : ~v.isValid
       \/ \E s \in settled : s.result.threw

(***************************************************************************)
(* Properties of the two flows side by side (fixed variant).               *)
(***************************************************************************)
LoginSlotIds ==
    {"email-error", "password-error"}

\* The step belongs to the flow of the form: its submit event, a
\* continuation of its handler, or one of its timers.
FlowStep(form) ==
    \/ SubmitStep(IF form = "login" THEN "loginForm" ELSE "registerForm")
    \/ \E p \in pending : p.handler = form /\ p \notin pending'
    \/ \E t \in timers : t.form = form /\ t \notin timers'

\* The submit button, status region and error slots of the form are as
\* they were.
FormUntouched(form) ==
    /\ button'[form] = button[form]
    /\ LET region == IF form = "login" THEN "login-status"
                                        ELSE "register-status"
       IN  status'[region] = status[region]
    /\ \A s \in (IF form = "login" THEN LoginSlotIds ELSE RegisterSlotIds) :
         errorSlot'[s] = errorSlot[s]

\* C26: a step of the login flow leaves registrationInProgress and the
\* register form's button, status region and error slots unchanged, and a
\* step of the registration flow leaves the login form's unchanged; every
\* login submit is validated (and, when valid, starts its mock call)
\* whatever the guard and whatever is in flight; and a registration submit
\* is validated whenever the guard is clear, also with a login in flight.
C26_FlowsIndependent ==
    [][/\ FlowStep("login")
            => /\ registrationInProgress' = registrationInProgress
               /\ FormUntouched("register")
       /\ FlowStep("register") => FormUntouched("login")
       /\ SubmitStep("loginForm")
            => \E v \in validated' \ validated :
                 /\ v.form = "login"
                 /\ v.isValid
                      => \E c \in authCalls' \ authCalls : c.id = v.id
       /\ (SubmitStep("registerForm") /\ ~registrationInProgress)
            => \E v \in validated' \ validated :
                 /\ v.form = "register"
                 /\ v.isValid
                      => \E c \in authCalls' \ authCalls : c.id = v.id
      ]_vars

\* A login has been submitted and started while a registration was in
\* flight under the guard.
C26_Witness ==
    /\ registrationInProgress
    /\ \E r \in pending : r.handler = "register"
    /\ \E l \in pending :
         /\ l.handler = "login"
         /\ \E r \in pending : r.handler = "register" /\ r.id < l.id
    /\ button["login"].loading
    /\ button["register"].loading

(***************************************************************************)
(* Properties of the entry into Submitting (fixed variant).                *)
(***************************************************************************)
\* C27: in the step in which a handler starts its mock call, the form's
\* submit button has the loading class, disabled = true and aria-busy =
\* 'true', and the form's status region reads 'Signing in...' (login) or
\* 'Creating account...' (registration); and in every state a button with
\* the loading class is disabled.
C27_LoadingOnSubmitting ==
    /\ [][\A c \in authCalls' \ authCalls :
            /\ button'[c.type].loading
            /\ button'[c.type].disabled
            /\ button'[c.type].ariaBusy = "true"
            /\ c.type = "login"
                 => status'["login-status"] = StatusSigningIn
            /\ c.type = "register"
                 => status'["register-status"] = StatusCreating
         ]_vars
    /\ [](\A form \in Forms : button[form].loading => button[form].disabled)

\* Both forms are in Submitting, each with its button loading and its
\* status text.
C27_Witness ==
    /\ \E p \in pending : p.handler = "login" /\ p.pc = "authenticateUser"
    /\ \E p \in pending : p.handler = "register" /\ p.pc = "authenticateUser"
    /\ button["login"].loading
    /\ button["register"].loading
    /\ status["login-status"] = StatusSigningIn
    /\ status["register-status"] = StatusCreating

(***************************************************************************)
(* Properties of the end of a submission (fixed variant).                  *)
(***************************************************************************)
\* The handler invocation is suspended at `await authenticateUser(...)`.
Submitting(id) ==
    \E p \in pending : p.id = id /\ p.pc = "authenticateUser"

\* The mock call of the invocation has settled and the handler has run to
\* its end and returned: through the success branch, or through its catch
\* block.
Returned(id) ==
    /\ \E s \in settled : s.id = id
    /\ ~\E p \in pending : p.id = id
    /\ id \notin rejected

\* C28: every submission that enters Submitting eventually leaves it: its
\* mock call settles and its handler reaches Succeeded or Failed and
\* returns, beforeunload or not.
C28_SubmissionCompletes ==
    \A id \in 1..(MaxEvents + 1) : Submitting(id) ~> Returned(id)

FieldTimers(d, f) ==
    {t \in d.timers : t.field = f}

\* C30: at most one timer is pending per field, and it is due 300 ms after
\* the field's last input event; validateInput runs for a field only when
\* that timer fires, 300 ms after the last event of the burst, and once per
\* burst; an input event or a timer of one field leaves the timer and the
\* state of every other field as they were; and a pending validation
\* eventually runs.
C30_DebouncedOnce ==
    /\ [](\A f \in DebouncedFields :
            /\ Cardinality(FieldTimers(debounced, f)) <= 1
            /\ \A t \in FieldTimers(debounced, f) :
                 t.ms + debounced.field[f].sinceInput = DebounceWait
            /\ debounced.field[f].validations
                 + Cardinality(FieldTimers(debounced, f))
                 = debounced.field[f].bursts)
    /\ [][\A f \in DebouncedFields :
            /\ debounced'.field[f].validations # debounced.field[f].validations
                 => /\ debounced'.field[f].validations
                         = debounced.field[f].validations + 1
                    /\ debounced.field[f].sinceInput = DebounceWait
                    /\ FieldTimers(debounced', f) = {}
                    /\ \A g \in DebouncedFields \ {f} :
                         /\ debounced'.field[g] = debounced.field[g]
                         /\ FieldTimers(debounced', g)
                              = FieldTimers(debounced, g)
            /\ debounced'.nextTimerId # debounced.nextTimerId
                 /\ debounced'.timeout[f] # debounced.timeout[f]
                 => \A g \in DebouncedFields \ {f} :
                      /\ debounced'.field[g] = debounced.field[g]
                      /\ FieldTimers(debounced', g) = FieldTimers(debounced, g)
         ]_vars
    /\ \A f \in DebouncedFields :
         (FieldTimers(debounced, f) # {}) ~> (FieldTimers(debounced, f) = {})

\* A burst of two input events 200 ms apart on the email field has been
\* validated once, while the password field, typed into during the burst,
\* still waits for its own timer.
C30_Witness ==
    /\ debounced.field["loginEmail"].bursts = 1
    /\ debounced.field["loginEmail"].validations = 1
    /\ debounced.nextTimerId = 4
    /\ debounced.timeout["loginEmail"] = 3
    /\ debounced.timeout["loginPassword"] = 2
    /\ FieldTimers(debounced, "loginPassword") # {}

(***************************************************************************)
(* Properties of the registration guard's cooldown.                        *)
(***************************************************************************)
\* The pending timers of handleRegister's finally block.
CooldownTimers ==
    {t \in timers : t.kind = "cooldown"}

\* Invocations of handleRegister suspended at an await (the mock call or
\* the delay after a success).
RegisterHandlers ==
    {p \in pending : p.handler = "register"}

\* C31: at most one guard-clearing cooldown timer is pending at any time;
\* while one is pending the guard is set and no invocation of
\* handleRegister is suspended; and a step in which a cooldown timer clears
\* the guard happens only when no registration submission is in flight (in
\* particular none that started after the timer was scheduled).
C31_SingleCooldown ==
    /\ [](/\ Cardinality(CooldownTimers) <= 1
          /\ CooldownTimers # {} =>
               /\ registrationInProgress
               /\ RegisterHandlers = {})
    /\ [][(CooldownTimers' # CooldownTimers /\ ~registrationInProgress')
            => /\ RegisterHandlers = {}
               /\ RegisterHandlers' = {}]_vars

\* The cooldown timer of a second registration submission that ran is
\* pending: the first one's timer has fired and opened the latch for it.
C31_Witness ==
    /\ Cardinality({v \in validated : v.form = "register"}) = 2
    /\ CooldownTimers # {}
    /\ registrationInProgress

\* Registration submissions whose client-side validation failed and whose
\* cooldown timer has not fired yet.
FailedValidationWindow ==
    {t \in CooldownTimers :
       \E v \in validated : v.id = t.id /\ v.form = "register" /\ ~v.isValid}

\* C32: a registration submit that runs and fails client-side validation
\* starts no mock call, sets registrationInProgress and schedules the
\* 1000 ms cooldown timer; until that timer fires the guard stays set, and
\* every registration submit in that window, whatever its data, runs no
\* validation, writes no error slot, status region or toast and starts no
\* mock call.
C32_FailedValidationHoldsGuard ==
    /\ [][(SubmitStep("registerForm") /\ ~registrationInProgress
             /\ \E v \in NewValidations : ~v.isValid)
            => /\ registrationInProgress'
               /\ authCalls' = authCalls
               /\ pending' = pending
               /\ \E t \in timers' \ timers :
                    /\ t.kind = "cooldown"
                    /\ t.ms = 1000
                    /\ t \in FailedValidationWindow']_vars
    /\ [](FailedValidationWindow # {} => registrationInProgress)
    /\ [][(FailedValidationWindow # {} /\ SubmitStep("registerForm"))
            => /\ validated' = validated
               /\ authCalls' = authCalls
               /\ pending' = pending
               /\ UNCHANGED dom
               /\ FailedValidationWindow' = FailedValidationWindow]_vars
    /\ [][(FailedValidationWindow # {} /\ ~registrationInProgress')
            => FailedValidationWindow' = {}]_vars

\* A registration submit was dropped in the window after a failed
\* validation: two submits were dispatched, the only one validated was
\* invalid, and its cooldown timer is still pending.
C32_Witness ==
    /\ FailedValidationWindow # {}
    /\ events["registerForm"] = 2
    /\ Cardinality({v \in validated : v.form = "register"}) = 1
    /\ authCalls = {}

\* Invocations of handleRegister suspended at the delay after a success.
RegisterPostSuccess ==
    {p \in RegisterHandlers : p.pc = "delay"}

\* C33: from a successful registration's submit until its cooldown timer
\* fires the guard is set: during the mock call, during the post-success
\* delay (in which no cooldown timer exists yet, the mock call having
\* settled with success) and during the cooldown, which is scheduled by the
\* step that ends the post-success delay; a registration submit during the
\* post-success delay changes nothing.
C33_GuardSpansSuccess ==
    /\ [](RegisterHandlers # {} =>
            /\ registrationInProgress
            /\ CooldownTimers = {})
    /\ [](\A p \in RegisterPostSuccess :
            \E s \in settled :
              s.id = p.id /\ s.type = "register" /\ ~s.result.threw)
    /\ [][\A p \in RegisterPostSuccess :
            p \notin pending'
              => /\ registrationInProgress'
                 /\ \E t \in CooldownTimers' :
                      t.id = p.id /\ t.ms = 1000]_vars
    /\ [][(RegisterPostSuccess # {} /\ SubmitStep("registerForm"))
            => /\ validated' = validated
               /\ authCalls' = authCalls
               /\ pending' = pending
               /\ UNCHANGED dom
               /\ UNCHANGED <<registrationInProgress, timers>>]_vars

\* A registration's mock call has settled with success, its handler is in
\* the post-success delay, and a second registration submit has been
\* dispatched and dropped.
C33_Witness ==
    /\ RegisterPostSuccess # {}
    /\ events["registerForm"] = 2
    /\ Cardinality({v \in validated : v.form = "register"}) = 1
    /\ registrationInProgress

(***************************************************************************)
(* Properties of concurrent login submissions.                             *)
(***************************************************************************)
\* Ids of the login submit events that passed validateLoginForm.
ValidLoginSubmits ==
    {v.id : v \in {x \in validated : x.form = "login" /\ x.isValid}}

\* Ids of the login mock calls that have settled.
SettledLoginCalls ==
    {s.id : s \in {x \in settled : x.type = "login"}}

\* C34: handleLogin never drops a submit: every login submit event runs
\* validateLoginForm, and every one that passes starts a mock call of its
\* own, whatever is pending; the login mock calls in flight are exactly the
\* validated login submits whose call has not settled yet.
C34_LoginNeverDropped ==
    /\ [][SubmitStep("loginForm")
            => \E v \in NewValidations :
                 /\ v.form = "login"
                 /\ v.id = NextId
                 /\ v.isValid
                      => /\ \E c \in authCalls' \ authCalls :
                              c.id = v.id /\ c.type = "login"
                         /\ \E p \in InFlight("login")' : p.id = v.id
                         /\ InFlight("login") \subseteq InFlight("login")'
                         /\ Cardinality(InFlight("login")')
                              = Cardinality(InFlight("login")) + 1]_vars
    /\ []({p.id : p \in InFlight("login")}
            = ValidLoginSubmits \ SettledLoginCalls)
    /\ [](Cardinality(InFlight("login"))
            = Cardinality(ValidLoginSubmits)
                - Cardinality(SettledLoginCalls))

\* Two login mock calls are in flight at once, the login button being
\* disabled since the first.
C34_Witness ==
    /\ Cardinality(InFlight("login")) >= 2
    /\ button["login"].disabled

(***************************************************************************)
(* Properties of the strength bands reachable in a variant.                *)
(***************************************************************************)
\* C35: in the fixed and minimal variants calculatePasswordStrength never
\* returns the band 'strong': the score is at most 6, below the 7 that
\* 'strong' starts at, and a score of 5 or 6 gives the band 'good'.
C35_StrongUnreachable ==
    (call.fn = "calculatePasswordStrength"
       /\ call.variant \in {"fixed", "minimal"})
      => /\ call.score <= 6
         /\ call.score < Levels[4].min
         /\ Levels[4].level = "strong"
         /\ call.ret.level # "strong"
         /\ call.score >= 5 => call.ret.level = "good"

\* A password that satisfies all six checks of the fixed variant has been
\* rated: its band is 'good'.
C35_Witness ==
    /\ call.fn = "calculatePasswordStrength"
    /\ call.variant = "fixed"
    /\ call.score = 6
    /\ Len(call.password) >= 12
    /\ call.ret.level = "good"

(***************************************************************************)
(* Properties of the password toggle and real-time validation.             *)
(***************************************************************************)
\* The presentation of a masked password input and its toggle.
Masked(f) ==
    /\ inputs[f].type = "password"
    /\ toggles[f].icon = "fa-eye"
    /\ toggles[f].ariaLabel = "Show password"

\* The presentation of a revealed password input and its toggle.
Revealed(f) ==
    /\ inputs[f].type = "text"
    /\ toggles[f].icon = "fa-eye-slash"
    /\ toggles[f].ariaLabel = "Hide password"

\* The step is a click on the toggle of the input.
ToggleStep(f) ==
    toggles'[f].clicks = toggles[f].clicks + 1

\* The step runs validateInput on the input.
ValidateStep(f) ==
    /\ call'.fn = "validateInput"
    /\ call'.input.id = f
    /\ \/ call' # call
       \/ inputs'[f].ariaInvalid # inputs[f].ariaInvalid

\* C36: a password input and its toggle are either masked (type
\* 'password', icon 'fa-eye', label 'Show password') or revealed (type
\* 'text', icon 'fa-eye-slash', label 'Hide password'): masked after an
\* even number of clicks on the toggle, revealed after an odd number; a
\* click takes one to the other, so two clicks restore all three, and it
\* leaves the value and aria-invalid alone.  validateInput marks an empty
\* value aria-invalid = true; a non-empty value it marks by validatePassword
\* while the input is masked and aria-invalid = false while it is revealed.
C36_ToggleAndValidation ==
    /\ [](\A f \in PasswordFieldIds :
            IF toggles[f].clicks % 2 = 0 THEN Masked(f) ELSE Revealed(f))
    /\ [][\A f \in PasswordFieldIds :
            ToggleStep(f)
              => /\ Masked(f) => Revealed(f)'
                 /\ Revealed(f) => Masked(f)'
                 /\ inputs'[f].value = inputs[f].value
                 /\ inputs'[f].ariaInvalid = inputs[f].ariaInvalid]_vars
    /\ [][\A f \in PasswordFieldIds :
            ValidateStep(f)
              => /\ UNCHANGED <<toggles, errorSlot>>
                 /\ inputs'[f].type = inputs[f].type
                 /\ inputs'[f].value = inputs[f].value
                 /\ call'.value = inputs[f].value
                 /\ inputs'[f].ariaInvalid =
                      IF Trim(inputs[f].value) = << >>
                      THEN "true"
                      ELSE IF Revealed(f)
                      THEN "false"
                      ELSE IF ValidatePassword(Trim(inputs[f].value)).isValid
                      THEN "false"
                      ELSE "true"]_vars

\* The input holds 'short', was validated while revealed and marked
\* aria-invalid = false, and has been masked again.
C36_Witness ==
    /\ inputs["loginPassword"].value = PwShort
    /\ call.fn = "validateInput"
    /\ call.input.id = "loginPassword"
    /\ call.input.type = "text"
    /\ call.value = PwShort
    /\ inputs["loginPassword"].ariaInvalid = "false"
    /\ Masked("loginPassword")
    /\ toggles["loginPassword"].clicks = 2

(***************************************************************************)
(* Properties of the password confirmation.                                *)
(***************************************************************************)
\* The confirm-password-error slot holding 'Passwords do not match'.
MismatchShown ==
    [textContent |-> ErrMismatch, ariaLive |-> "polite"]

\* The confirm-password-error slot when cleared.
SlotCleared ==
    [textContent |-> EmptyStr, ariaLive |-> "none"]

\* C37: after validatePasswordMatch and after validateRegisterForm on the
\* same pair of values with a non-empty confirmation, confirm-password-error
\* holds the same content: 'Passwords do not match' when the two differ,
\* nothing when they are equal.  With a non-empty password and an empty
\* confirmation validatePasswordMatch leaves the slot cleared and
\* validateRegisterForm leaves 'Passwords do not match' in it.
C37_ConfirmationAgreement ==
    call.fn \in {"validatePasswordMatch", "validateRegisterForm"}
      => LET password == call.userData.password
             confirmPassword == call.userData.confirmPassword
             slot == errorSlot["confirm-password-error"]
         IN  /\ confirmPassword # << >>
                  => slot = IF password # confirmPassword
                            THEN MismatchShown
                            ELSE SlotCleared
             /\ (confirmPassword = << >> /\ password # << >>)
                  => slot = IF call.fn = "validatePasswordMatch"
                            THEN SlotCleared
                            ELSE MismatchShown

\* After a submit-time validation that left an email error,
\* validatePasswordMatch has run on a password with an empty confirmation
\* and left the confirmation slot cleared.
C37_Witness ==
    /\ call.fn = "validatePasswordMatch"
    /\ call.userData.password = PwAbcdefg1
    /\ call.userData.confirmPassword = EmptyStr
    /\ errorSlot["confirm-password-error"] = SlotCleared
    /\ errorSlot["register-email-error"].textContent = ErrEmail

(***************************************************************************)
(* Properties of the login password field.                                 *)
(***************************************************************************)
\* C38: a submit of the login form whose email is well-formed and whose
\* password is non-empty passes validateLoginForm and enters Submitting (a
\* mock call starts with the values of the inputs and the button is
\* loading), whatever aria-invalid says; and validateInput on the masked
\* login password field marks aria-invalid = true for an empty value and
\* for every non-empty value that fails validatePassword, false otherwise.
C38_AriaInvalidNeverBlocks ==
    /\ [][SubmitStep("loginForm")
            => LET email == inputs["loginEmail"].value
                   password == inputs["loginPassword"].value
               IN  /\ \E v \in NewValidations :
                        /\ v.form = "login"
                        /\ v.isValid = (IsValidEmail(email)
                                          /\ password # << >>)
                   /\ (IsValidEmail(email) /\ password # << >>)
                        => /\ \E p \in InFlight("login")' \ InFlight("login") :
                                /\ p.credentials.email = email
                                /\ p.credentials.password = password
                           /\ button'["login"].loading
                           /\ button'["login"].disabled]_vars
    /\ [][ValidateStep("loginPassword")
            => /\ inputs["loginPassword"].type = "password"
               /\ call'.value = inputs["loginPassword"].value
               /\ inputs'["loginPassword"].ariaInvalid =
                    IF Trim(inputs["loginPassword"].value) = << >>
                    THEN "true"
                    ELSE IF ValidatePassword(
                              Trim(inputs["loginPassword"].value)).isValid
                    THEN "false"
                    ELSE "true"]_vars

\* The password field holds 'secret', validateInput has marked it
\* aria-invalid = true, and the login submitted with it is in Submitting.
C38_Witness ==
    /\ inputs["loginPassword"].value = PwSecret
    /\ inputs["loginPassword"].ariaInvalid = "true"
    /\ call.fn = "validateInput"
    /\ call.input.id = "loginPassword"
    /\ call.value = PwSecret
    /\ \E p \in InFlight("login") :
         /\ p.credentials.password = PwSecret
         /\ p.id = 1
    /\ events["loginForm"] = 1
    /\ button["login"].loading

(***************************************************************************)
(* Properties of the panel buttons.                                        *)
(***************************************************************************)
\* The step is a click on registerBtn or loginBtn.
PanelClickStep ==
    container'.clicks = container.clicks + 1

\* C39: on a page without document.startViewTransition, in the fixed and
\* the minimal variant, once a panel button has been clicked the container
\* has the class 'active' iff the most recent click was on registerBtn; a
\* click on the button clicked last leaves the class as it is; and a click,
\* with or without view transitions, changes no input, error slot, submit
\* button, status region or the registration guard, and leaves every
\* suspended handler, timer and mock call as it was.
C39_PanelToggle ==
    /\ []((~boot.startViewTransition /\ container.lastClick # "none")
            => (container.active <=> container.lastClick = "registerBtn"))
    /\ [][PanelClickStep
            => /\ container'.lastClick \in {"registerBtn", "loginBtn"}
               /\ ~boot.startViewTransition
                    => /\ container'.active
                            <=> container'.lastClick = "registerBtn"
                       /\ container'.lastClick = container.lastClick
                            => container'.active = container.active
               /\ UNCHANGED <<inputs, toggles, errorSlot, button, status,
                              registrationInProgress, pending, timers,
                              rejected, authCalls, settled, validated,
                              events, modal, toasts, toastTimers>>]_vars

\* In the fixed variant without view transitions registerBtn has been
\* clicked twice while a registration is in flight: the registration panel
\* is shown and the submission is still in Submitting.
C39_Witness ==
    /\ boot.variant = "fixed"
    /\ ~boot.startViewTransition
    /\ container.clicks = 2
    /\ container.lastClick = "registerBtn"
    /\ container.active
    /\ container.announcements = 2
    /\ Cardinality(container.focusTimers) = 2
    /\ \A t \in container.focusTimers : t.target = "registerName"
    /\ RegisterInFlight # {}
    /\ button["register"].loading
    /\ registrationInProgress

====
